---- MODULE Spec2Model ----
(***************************************************************************)
(* libsais: linear-time suffix array and Burrows-Wheeler transform         *)
(* construction (induced sorting).  The model follows src/src/libsais.c:   *)
(* every C function is an operator of the same name, every loop a local    *)
(* recursive operator that performs one iteration of the loop per call.    *)
(* The 2x/4x/8x unrolled loop bodies of the source repeat the body of      *)
(* their tail loop; prefetch hints read no value and are left out.         *)
(*                                                                         *)
(* Memory: SA is a function 0..len-1 -> Int (32-bit signed cells), T of    *)
(* the byte path a function 0..n-1 -> 0..UCHAR_MAX, the bucket table of    *)
(* the byte path a function 0..8*ALPHABET_SIZE-1 -> Int.  On the integer   *)
(* path the text and the bucket table live inside SA (or in the heap       *)
(* scratch block, which the model places behind the last cell of SA), so   *)
(* the operators of that path take the memory as SA and the pointers T and *)
(* buckets as offsets into it.                                             *)
(***************************************************************************)
EXTENDS Integers, Sequences, FiniteSets, TLC

\* ---------------------------------------------------------------- constants

INT_BIT == 32
\* Width of a text symbol.  The library is built with 8; the model keeps the
\* tables of the byte path small by giving a symbol CHAR_BIT bits, so that the
\* texts are over 0..UCHAR_MAX and every table keeps its layout in units of
\* ALPHABET_SIZE.
CHAR_BIT == 3
ALPHABET_SIZE == 2 ^ CHAR_BIT
UCHAR_MAX == ALPHABET_SIZE - 1
INT_MAX == 2147483647
INT_MIN == (-INT_MAX) - 1
SUFFIX_GROUP_BIT == INT_BIT - 1
SUFFIX_GROUP_MARKER == 2 ^ (SUFFIX_GROUP_BIT - 1)

BUCKETS_INDEX2(c, s) == (c * 2) + s
BUCKETS_INDEX4(c, s) == (c * 4) + s

\* p & INT_MAX, p | INT_MIN, p ^ INT_MIN and p & INT_MIN on 32-bit two's complement cells
AndMax(p) == IF p < 0 THEN (p + INT_MAX) + 1 ELSE p
OrMin(p) == IF p < 0 THEN p ELSE p + INT_MIN
XorMin(p) == IF p < 0 THEN (p + INT_MAX) + 1 ELSE p + INT_MIN
AndMin(p) == IF p < 0 THEN INT_MIN ELSE 0
\* p | (flag << (INT_BIT - 1))
OrFlag(p, flag) == IF flag THEN OrMin(p) ELSE p
B2I(b) == IF b THEN 1 ELSE 0
\* bit SUFFIX_GROUP_BIT - 1 of a cell: p & SUFFIX_GROUP_MARKER != 0, p | SUFFIX_GROUP_MARKER,
\* p ^ SUFFIX_GROUP_MARKER and p & ~SUFFIX_GROUP_MARKER
HasMarker(p) == (AndMax(p) \div SUFFIX_GROUP_MARKER) % 2 = 1
OrMarker(p) == IF HasMarker(p) THEN p ELSE p + SUFFIX_GROUP_MARKER
XorMarker(p) == IF HasMarker(p) THEN p - SUFFIX_GROUP_MARKER ELSE p + SUFFIX_GROUP_MARKER
AndNotMarker(p) == IF HasMarker(p) THEN p - SUFFIX_GROUP_MARKER ELSE p
\* p - 1 in 32 bits
Dec32(p) == IF p = INT_MIN THEN INT_MAX ELSE p - 1
\* p - q in 32 bits, for q > 0
Sub32(p, q) == IF p < INT_MIN + q THEN ((p + INT_MAX) + 1) + ((INT_MAX - q) + 1) ELSE p - q

\* e, evaluated once the memory a has been computed: the statements of a C
\* function run in order, each on the memory the one before it left
After(a, e) == IF DOMAIN a = {} THEN e ELSE e

\* memset(&a[from], v, len) and memmove(&a[dst], &a[src], len) on one array
MemSet(a, from, len, v) == [x \in DOMAIN a |-> IF x >= from /\ x < from + len THEN v ELSE a[x]] @@ << >>
MemMove(a, dst, src, len) == [x \in DOMAIN a |-> IF x >= dst /\ x < dst + len THEN a[src + (x - dst)] ELSE a[x]] @@ << >>

\* ------------------------------------------------------- byte path: scanner

\* the scanner that takes the last position of its block for S-type
libsais_count_and_gather_lms_suffixes_8u_open(T, SA, n, buckets, omp_block_start, omp_block_size) ==
  After(SA, After(buckets,
    LET b0 == MemSet(buckets, 0, 4 * ALPHABET_SIZE, 0)
        m0 == omp_block_start + omp_block_size - 1
        RECURSIVE skip(_, _)
        skip(j, c1) == IF j < n THEN (IF T[j] = T[m0] THEN skip(j + 1, T[j]) ELSE T[j]) ELSE c1
        RECURSIVE scan(_, _, _, _, _, _)
        scan(i, c0, s, m, sa, b) ==
          IF i >= omp_block_start
          THEN LET c == T[i]
                   s1 == ((2 * s) + B2I(c > c0 - (s % 2))) % 4
               IN scan(i - 1, c, s1, m - B2I(s1 = 1), [sa EXCEPT ![m] = i + 1],
                       [b EXCEPT ![BUCKETS_INDEX4(c0, s1)] = @ + 1])
          ELSE LET c1 == IF i >= 0 THEN T[i] ELSE -1
                   s1 == ((2 * s) + B2I(c1 > c0 - (s % 2))) % 4
               IN [SA |-> [sa EXCEPT ![m] = i + 1],
                   buckets |-> [b EXCEPT ![BUCKETS_INDEX4(c0, s1)] = @ + 1],
                   m |-> (omp_block_start + omp_block_size - 1) - (m - B2I(s1 = 1))]
    IN IF omp_block_size > 0
       THEN scan(m0 - 1, T[m0], 0, m0, SA, b0)
       ELSE [SA |-> SA, buckets |-> b0, m |-> (omp_block_start + omp_block_size - 1) - m0]))

libsais_count_and_gather_lms_suffixes_8u(T, SA, n, buckets, omp_block_start, omp_block_size) ==
  After(SA, After(buckets,
    LET b0 == MemSet(buckets, 0, 4 * ALPHABET_SIZE, 0)
        m0 == omp_block_start + omp_block_size - 1
        RECURSIVE skip(_, _)
        skip(j, c1) == IF j < n THEN (IF T[j] = T[m0] THEN skip(j + 1, T[j]) ELSE T[j]) ELSE c1
        RECURSIVE scan(_, _, _, _, _, _)
        scan(i, c0, s, m, sa, b) ==
          IF i >= omp_block_start
          THEN LET c == T[i]
                   s1 == ((2 * s) + B2I(c > c0 - (s % 2))) % 4
               IN scan(i - 1, c, s1, m - B2I(s1 = 1), [sa EXCEPT ![m] = i + 1],
                       [b EXCEPT ![BUCKETS_INDEX4(c0, s1)] = @ + 1])
          ELSE LET c1 == IF i >= 0 THEN T[i] ELSE -1
                   s1 == ((2 * s) + B2I(c1 > c0 - (s % 2))) % 4
               IN [SA |-> [sa EXCEPT ![m] = i + 1],
                   buckets |-> [b EXCEPT ![BUCKETS_INDEX4(c0, s1)] = @ + 1],
                   m |-> (omp_block_start + omp_block_size - 1) - (m - B2I(s1 = 1))]
    IN IF omp_block_size > 0
       THEN scan(m0 - 1, T[m0], B2I(T[m0] >= skip(m0 + 1, -1)), m0, SA, b0)
       ELSE [SA |-> SA, buckets |-> b0, m |-> (omp_block_start + omp_block_size - 1) - m0]))

libsais_count_and_gather_lms_suffixes_8u_cleared(r, n) == [r EXCEPT !.SA = MemSet(@, 0, n - r.m, 0)]

libsais_count_and_gather_lms_suffixes_8u_omp_cleared(T, SA, n, buckets, threads) ==
  After(SA, After(buckets,
    libsais_count_and_gather_lms_suffixes_8u_cleared(
      libsais_count_and_gather_lms_suffixes_8u(T, SA, n, buckets, 0, n), n)))

\* The parallel region is entered only for threads > 1 and n >= 65536; below that
\* omp_get_num_threads() is 1 and the one block is the whole text.
libsais_count_and_gather_lms_suffixes_8u_omp(T, SA, n, buckets, threads) ==
  After(SA, After(buckets,
    libsais_count_and_gather_lms_suffixes_8u(T, SA, n, buckets, 0, n)))

libsais_gather_lms_suffixes_8u(T, SA, n, m, omp_block_start, omp_block_size) ==
  After(SA,
    LET e == omp_block_start + omp_block_size
        RECURSIVE skip(_, _)
        skip(j, c1) == IF j < n THEN (IF T[j] = T[e - 1] THEN skip(j + 1, T[j]) ELSE T[j]) ELSE c1
        RECURSIVE scan(_, _, _, _, _)
        scan(i, c0, s, mm, sa) ==
          IF i >= omp_block_start
          THEN LET c == T[i]
                   s1 == ((2 * s) + B2I(c > c0 - (s % 2))) % 4
               IN scan(i - 1, c, s1, mm - B2I(s1 = 1), [sa EXCEPT ![mm] = i + 1])
          ELSE [sa EXCEPT ![mm] = i + 1]
    IN IF omp_block_size > 0
       THEN scan(e - 2, T[e - 1], B2I(T[e - 1] >= skip(e, -1)), m, SA)
       ELSE SA)

libsais_gather_lms_suffixes_8u_omp(T, SA, n, threads) ==
  After(SA,
    libsais_gather_lms_suffixes_8u(T, SA, n, n - 1, 0, n))

\* ------------------------------------------------- byte path: bucket tables

libsais_initialize_buckets_start_and_end_8u(buckets) ==
  After(buckets,
    LET RECURSIVE loop(_, _, _)
        loop(j, sum, b) ==
          IF (4 * j) <= BUCKETS_INDEX4(UCHAR_MAX, 0)
          THEN LET i == 4 * j
                   sum1 == sum + b[i + BUCKETS_INDEX4(0, 0)] + b[i + BUCKETS_INDEX4(0, 1)]
                               + b[i + BUCKETS_INDEX4(0, 2)] + b[i + BUCKETS_INDEX4(0, 3)]
               IN loop(j + 1, sum1, [b EXCEPT ![(6 * ALPHABET_SIZE) + j] = sum,
                                              ![(7 * ALPHABET_SIZE) + j] = sum1])
          ELSE b
    IN loop(0, 0, buckets))

libsais_initialize_buckets_for_lms_suffixes_radix_sort_8u(T, buckets, first_lms_suffix) ==
  After(buckets,
    LET RECURSIVE back(_, _, _, _)
        back(i, c0, s, b) ==
          IF i >= 0
          THEN LET c == T[i]
                   s1 == ((2 * s) + B2I(c > c0 - (s % 2))) % 4
               IN back(i - 1, c, s1, [b EXCEPT ![BUCKETS_INDEX4(c0, s1)] = @ - 1])
          ELSE [b EXCEPT ![BUCKETS_INDEX4(c0, (2 * s) % 4)] = @ - 1]
        b1 == back(first_lms_suffix - 1, T[first_lms_suffix], 0, buckets)
        RECURSIVE loop(_, _, _)
        loop(c, sum, b) ==
          IF BUCKETS_INDEX4(c, 0) <= BUCKETS_INDEX4(UCHAR_MAX, 0)
          THEN LET i == BUCKETS_INDEX4(c, 0)
                   j == (4 * ALPHABET_SIZE) + BUCKETS_INDEX2(c, 0)
                   sum1 == sum + b[i + BUCKETS_INDEX4(0, 1)] + b[i + BUCKETS_INDEX4(0, 3)]
               IN loop(c + 1, sum1, [b EXCEPT ![j + BUCKETS_INDEX2(0, 1)] = sum, ![j] = sum1])
          ELSE [buckets |-> b, sum |-> sum]
    IN loop(0, 0, b1))

libsais_initialize_buckets_for_partial_sorting_8u(T, buckets, first_lms_suffix, left_suffixes_count) ==
  After(buckets,
    LET b1 == [buckets EXCEPT ![BUCKETS_INDEX4(T[first_lms_suffix], 1)] = @ + 1]
        RECURSIVE loop(_, _, _, _)
        loop(c, sum0, sum1, b) ==
          IF BUCKETS_INDEX4(c, 0) <= BUCKETS_INDEX4(UCHAR_MAX, 0)
          THEN LET i == BUCKETS_INDEX4(c, 0)
                   j == BUCKETS_INDEX2(c, 0)
                   t == [b EXCEPT ![(4 * ALPHABET_SIZE) + j + BUCKETS_INDEX2(0, 0)] = sum0]
                   s0 == sum0 + t[i + BUCKETS_INDEX4(0, 0)] + t[i + BUCKETS_INDEX4(0, 2)]
                   s1 == sum1 + t[i + BUCKETS_INDEX4(0, 1)]
               IN loop(c + 1, s0, s1, [t EXCEPT ![j + BUCKETS_INDEX2(0, 0)] = s0,
                                                ![j + BUCKETS_INDEX2(0, 1)] = s1])
          ELSE b
    IN loop(0, left_suffixes_count + 1, 0, b1))

\* ------------------------------------------------- byte path: radix placer

libsais_radix_sort_lms_suffixes_8u(T, SA, induction_bucket, buckets, omp_block_start, omp_block_size) ==
  After(SA, After(buckets,
    LET RECURSIVE loop(_, _, _)
        loop(i, sa, b) ==
          IF i >= omp_block_start
          THEN LET p == sa[i]
                   v == induction_bucket + BUCKETS_INDEX2(T[p], 0)
                   b1 == [b EXCEPT ![v] = @ - 1]
               IN loop(i - 1, [sa EXCEPT ![b1[v]] = p], b1)
          ELSE [SA |-> sa, buckets |-> b]
    IN loop(omp_block_start + omp_block_size - 1, SA, buckets)))

\* the radix sort that takes the first LMS suffix of the text with the others
libsais_radix_sort_lms_suffixes_8u_omp_whole(T, SA, n, m, buckets, threads) ==
  After(SA, After(buckets,
    libsais_radix_sort_lms_suffixes_8u(T, SA, 4 * ALPHABET_SIZE, buckets, n - m, m)))

libsais_radix_sort_lms_suffixes_8u_omp(T, SA, n, m, buckets, threads) ==
  After(SA, After(buckets,
    libsais_radix_sort_lms_suffixes_8u(T, SA, 4 * ALPHABET_SIZE, buckets, (n - m) + 1, m - 1)))

\* -------------------------------------------- byte path: induction scanner

libsais_partial_sorting_scan_left_to_right_8u(T, SA, buckets, d, omp_block_start, omp_block_size) ==
  After(SA, After(buckets,
    LET induction_bucket == 4 * ALPHABET_SIZE
        distinct_names == 2 * ALPHABET_SIZE
        RECURSIVE loop(_, _, _, _)
        loop(i, sa, b, dd) ==
          IF i < omp_block_start + omp_block_size
          THEN LET p0 == sa[i]
                   d1 == dd + B2I(p0 < 0)
                   p == AndMax(p0)
                   v == BUCKETS_INDEX2(T[p - 1], B2I(T[p - 2] >= T[p - 1]))
               IN loop(i + 1,
                       [sa EXCEPT ![b[induction_bucket + v]] = OrFlag(p - 1, b[distinct_names + v] # d1)],
                       [b EXCEPT ![induction_bucket + v] = @ + 1, ![distinct_names + v] = d1],
                       d1)
          ELSE [SA |-> sa, buckets |-> b, d |-> dd]
    IN loop(omp_block_start, SA, buckets, d)))

\* threads == 1 || left_suffixes_count < 65536: the serial scan of the whole range
libsais_partial_sorting_scan_left_to_right_8u_omp(T, SA, n, buckets, left_suffixes_count, d, threads) ==
  After(SA, After(buckets,
    LET induction_bucket == 4 * ALPHABET_SIZE
        distinct_names == 2 * ALPHABET_SIZE
        v == BUCKETS_INDEX2(T[n - 1], B2I(T[n - 2] >= T[n - 1]))
        sa1 == [SA EXCEPT ![buckets[induction_bucket + v]] = OrMin(n - 1)]
        b1 == [buckets EXCEPT ![induction_bucket + v] = @ + 1, ![distinct_names + v] = d + 1]
    IN libsais_partial_sorting_scan_left_to_right_8u(T, sa1, b1, d + 1, 0, left_suffixes_count)))

libsais_partial_sorting_shift_markers_8u_omp(SA, n, buckets, threads) ==
  After(SA, After(buckets,
    LET temp_bucket == 4 * ALPHABET_SIZE
        RECURSIVE inner(_, _, _, _)
        inner(i, j, s, sa) ==
          IF i >= j
          THEN LET p == sa[i]
                   q == (p < 0) # s
               IN inner(i - 1, j, p < 0, [sa EXCEPT ![i] = IF q THEN XorMin(p) ELSE p])
          ELSE sa
        RECURSIVE outer(_, _)
        outer(c, sa) ==
          IF c >= BUCKETS_INDEX2(1, 0)
          THEN outer(c - BUCKETS_INDEX2(1, 0),
                     inner(buckets[temp_bucket + c] - 1, buckets[c - BUCKETS_INDEX2(1, 0)], TRUE, sa))
          ELSE sa
    IN outer(BUCKETS_INDEX2(UCHAR_MAX, 0), SA)))

libsais_partial_sorting_scan_right_to_left_8u(T, SA, buckets, d, omp_block_start, omp_block_size) ==
  After(SA, After(buckets,
    LET induction_bucket == 0 * ALPHABET_SIZE
        distinct_names == 2 * ALPHABET_SIZE
        RECURSIVE loop(_, _, _, _)
        loop(i, sa, b, dd) ==
          IF i >= omp_block_start
          THEN LET p0 == sa[i]
                   d1 == dd + B2I(p0 < 0)
                   p == AndMax(p0)
                   v == BUCKETS_INDEX2(T[p - 1], B2I(T[p - 2] > T[p - 1]))
                   b1 == [b EXCEPT ![induction_bucket + v] = @ - 1]
               IN loop(i - 1,
                       [sa EXCEPT ![b1[induction_bucket + v]] = OrFlag(p - 1, b[distinct_names + v] # d1)],
                       [b1 EXCEPT ![distinct_names + v] = d1],
                       d1)
          ELSE [SA |-> sa, buckets |-> b, d |-> dd]
    IN loop(omp_block_start + omp_block_size - 1, SA, buckets, d)))

libsais_partial_sorting_scan_right_to_left_8u_omp(T, SA, n, buckets, first_lms_suffix, left_suffixes_count, d, threads) ==
  After(SA, After(buckets,
    LET scan_start == left_suffixes_count + 1
        scan_end == n - first_lms_suffix
    IN libsais_partial_sorting_scan_right_to_left_8u(T, SA, buckets, d, scan_start, scan_end - scan_start)))

\* the partial induction without its right-to-left scan
libsais_induce_partial_order_8u_omp_left(T, SA, n, buckets, first_lms_suffix, left_suffixes_count, threads) ==
  After(SA, After(buckets,
    LET b0 == MemSet(buckets, 2 * ALPHABET_SIZE, 2 * ALPHABET_SIZE, 0)
        r1 == libsais_partial_sorting_scan_left_to_right_8u_omp(T, SA, n, b0, left_suffixes_count, 0, threads)
        sa2 == libsais_partial_sorting_shift_markers_8u_omp(r1.SA, n, r1.buckets, threads)
    IN [SA |-> sa2, buckets |-> r1.buckets]))

libsais_induce_partial_order_8u_omp(T, SA, n, buckets, first_lms_suffix, left_suffixes_count, threads) ==
  After(SA, After(buckets,
    LET b0 == MemSet(buckets, 2 * ALPHABET_SIZE, 2 * ALPHABET_SIZE, 0)
        r1 == libsais_partial_sorting_scan_left_to_right_8u_omp(T, SA, n, b0, left_suffixes_count, 0, threads)
        sa2 == libsais_partial_sorting_shift_markers_8u_omp(r1.SA, n, r1.buckets, threads)
        r3 == libsais_partial_sorting_scan_right_to_left_8u_omp(T, sa2, n, r1.buckets, first_lms_suffix,
                                                                left_suffixes_count, r1.d, threads)
    IN [SA |-> r3.SA, buckets |-> r3.buckets]))

\* ------------------------------------------------------- byte path: namer

\* the namer that gives every LMS suffix a name of its own
libsais_renumber_lms_suffixes_8u_every(SA, m, name, omp_block_start, omp_block_size) ==
  After(SA,
    LET RECURSIVE loop(_, _, _)
        loop(i, sa, nm) ==
          IF i < omp_block_start + omp_block_size
          THEN LET p == sa[i]
               IN loop(i + 1, [sa EXCEPT ![m + (AndMax(p) \div 2)] = OrMin(nm)], nm + 1)
          ELSE [SA |-> sa, name |-> nm]
    IN loop(omp_block_start, SA, name))

libsais_renumber_lms_suffixes_8u_marked(SA, m, name, omp_block_start, omp_block_size) ==
  After(SA,
    LET RECURSIVE loop(_, _, _)
        loop(i, sa, nm) ==
          IF i < omp_block_start + omp_block_size
          THEN LET p == sa[i]
               IN loop(i + 1, [sa EXCEPT ![m + (AndMax(p) \div 2)] = OrMarker(nm)], nm + B2I(p < 0))
          ELSE [SA |-> sa, name |-> nm]
    IN loop(omp_block_start, SA, name))

libsais_renumber_lms_suffixes_8u(SA, m, name, omp_block_start, omp_block_size) ==
  After(SA,
    LET RECURSIVE loop(_, _, _)
        loop(i, sa, nm) ==
          IF i < omp_block_start + omp_block_size
          THEN LET p == sa[i]
               IN loop(i + 1, [sa EXCEPT ![m + (AndMax(p) \div 2)] = OrMin(nm)], nm + B2I(p < 0))
          ELSE [SA |-> sa, name |-> nm]
    IN loop(omp_block_start, SA, name))

libsais_renumber_lms_suffixes_8u_omp(SA, m, threads) ==
  After(SA,
    libsais_renumber_lms_suffixes_8u(SA, m, 0, 0, m))

libsais_gather_marked_suffixes_8u(SA, m, l, omp_block_start, omp_block_size) ==
  After(SA,
    LET RECURSIVE loop(_, _, _)
        loop(i, ll, sa) ==
          IF i >= m + omp_block_start
          THEN LET s == sa[i]
               IN loop(i - 1, ll - B2I(s < 0), [sa EXCEPT ![ll] = AndMax(s)])
          ELSE [SA |-> sa, l |-> ll + 1]
    IN loop(m + omp_block_start + omp_block_size - 1, l - 1, SA))

libsais_gather_marked_lms_suffixes_8u_omp(SA, n, m, fs, threads) ==
  After(SA,
    libsais_gather_marked_suffixes_8u(SA, m, n + fs, 0, n \div 2).SA)

libsais_renumber_and_gather_lms_suffixes_8u_omp(SA, n, m, fs, threads) ==
  After(SA,
    LET sa0 == MemSet(SA, m, n \div 2, 0)
        r == libsais_renumber_lms_suffixes_8u_omp(sa0, m, threads)
    IN [SA |-> IF r.name < m
               THEN libsais_gather_marked_lms_suffixes_8u_omp(r.SA, n, m, fs, threads)
               ELSE [x \in DOMAIN r.SA |-> IF x < m THEN AndMax(r.SA[x]) ELSE r.SA[x]],
        name |-> r.name])

\* ------------------------------------------- byte path: reconstruct and place

libsais_reconstruct_lms_suffixes(SA, n, m, omp_block_start, omp_block_size) ==
  After(SA,
    LET RECURSIVE loop(_, _)
        loop(i, sa) ==
          IF i < omp_block_start + omp_block_size
          THEN loop(i + 1, [sa EXCEPT ![i] = sa[(n - m) + sa[i]]])
          ELSE sa
    IN loop(omp_block_start, SA))

libsais_reconstruct_lms_suffixes_omp(SA, n, m, threads) ==
  After(SA,
    libsais_reconstruct_lms_suffixes(SA, n, m, 0, m))

libsais_place_lms_suffixes_interval_8u(SA, n, m, buckets) ==
  After(SA, After(buckets,
    LET bucket_end == 7 * ALPHABET_SIZE
        RECURSIVE loop(_, _, _, _)
        loop(c, j, mm, sa) ==
          IF c >= 0
          THEN LET l == buckets[BUCKETS_INDEX2(c, 1) + BUCKETS_INDEX2(1, 0)] - buckets[BUCKETS_INDEX2(c, 1)]
               IN IF l > 0
                  THEN LET i == buckets[bucket_end + c]
                           sa1 == IF j - i > 0 THEN MemSet(sa, i, j - i, 0) ELSE sa
                       IN loop(c - 1, i - l, mm - l, MemMove(sa1, i - l, mm - l, l))
                  ELSE loop(c - 1, j, mm, sa)
          ELSE MemSet(sa, 0, j, 0)
    IN loop(UCHAR_MAX - 1, n, m, SA)))

\* --------------------------------------------- byte path: final induction

libsais_final_bwt_scan_left_to_right_8u(T, SA, induction_bucket, buckets, omp_block_start, omp_block_size) ==
  After(SA, After(buckets,
    LET RECURSIVE loop(_, _, _)
        loop(i, sa, b) ==
          IF i < omp_block_start + omp_block_size
          THEN LET p0 == sa[i]
                   sa1 == [sa EXCEPT ![i] = AndMax(p0)]
               IN IF p0 > 0
                  THEN LET p == p0 - 1
                           sa2 == [sa1 EXCEPT ![i] = OrMin(T[p])]
                       IN loop(i + 1,
                               [sa2 EXCEPT ![b[induction_bucket + T[p]]] = OrFlag(p, T[p - B2I(p > 0)] < T[p])],
                               [b EXCEPT ![induction_bucket + T[p]] = @ + 1])
                  ELSE loop(i + 1, sa1, b)
          ELSE [SA |-> sa, buckets |-> b]
    IN loop(omp_block_start, SA, buckets)))

\* the left-to-right pass that never sets the sign bit of what it writes
libsais_final_sorting_scan_left_to_right_8u_unflagged(T, SA, induction_bucket, buckets, omp_block_start, omp_block_size) ==
  After(SA, After(buckets,
    LET RECURSIVE loop(_, _, _)
        loop(i, sa, b) ==
          IF i < omp_block_start + omp_block_size
          THEN LET p0 == sa[i]
                   sa1 == [sa EXCEPT ![i] = XorMin(p0)]
               IN IF p0 > 0
                  THEN LET p == p0 - 1
                       IN loop(i + 1,
                               [sa1 EXCEPT ![b[induction_bucket + T[p]]] = p],
                               [b EXCEPT ![induction_bucket + T[p]] = @ + 1])
                  ELSE loop(i + 1, sa1, b)
          ELSE [SA |-> sa, buckets |-> b]
    IN loop(omp_block_start, SA, buckets)))

libsais_final_sorting_scan_left_to_right_8u(T, SA, induction_bucket, buckets, omp_block_start, omp_block_size) ==
  After(SA, After(buckets,
    LET RECURSIVE loop(_, _, _)
        loop(i, sa, b) ==
          IF i < omp_block_start + omp_block_size
          THEN LET p0 == sa[i]
                   sa1 == [sa EXCEPT ![i] = XorMin(p0)]
               IN IF p0 > 0
                  THEN LET p == p0 - 1
                       IN loop(i + 1,
                               [sa1 EXCEPT ![b[induction_bucket + T[p]]] = OrFlag(p, T[p - B2I(p > 0)] < T[p])],
                               [b EXCEPT ![induction_bucket + T[p]] = @ + 1])
                  ELSE loop(i + 1, sa1, b)
          ELSE [SA |-> sa, buckets |-> b]
    IN loop(omp_block_start, SA, buckets)))

\* threads == 1 || n < 65536: the serial scan of SA[0..n)
\* the left-to-right pass of the transform started without placing the last
\* suffix of the text
libsais_final_bwt_scan_left_to_right_8u_unseeded(T, SA, n, induction_bucket, buckets, threads) ==
  After(SA, After(buckets,
    libsais_final_bwt_scan_left_to_right_8u(T, SA, induction_bucket, buckets, 0, n)))

libsais_final_bwt_scan_left_to_right_8u_omp(T, SA, n, induction_bucket, buckets, threads) ==
  After(SA, After(buckets,
    LET c == T[n - 1]
        sa1 == [SA EXCEPT ![buckets[induction_bucket + c]] = OrFlag(n - 1, T[n - 2] < T[n - 1])]
        b1 == [buckets EXCEPT ![induction_bucket + c] = @ + 1]
    IN libsais_final_bwt_scan_left_to_right_8u(T, sa1, induction_bucket, b1, 0, n)))

\* the left-to-right pass started without placing the last suffix of the text
libsais_final_sorting_scan_left_to_right_8u_unseeded(T, SA, n, induction_bucket, buckets, threads) ==
  After(SA, After(buckets,
    libsais_final_sorting_scan_left_to_right_8u(T, SA, induction_bucket, buckets, 0, n)))

libsais_final_sorting_scan_left_to_right_8u_omp(T, SA, n, induction_bucket, buckets, threads) ==
  After(SA, After(buckets,
    LET c == T[n - 1]
        sa1 == [SA EXCEPT ![buckets[induction_bucket + c]] = OrFlag(n - 1, T[n - 2] < T[n - 1])]
        b1 == [buckets EXCEPT ![induction_bucket + c] = @ + 1]
    IN libsais_final_sorting_scan_left_to_right_8u(T, sa1, induction_bucket, b1, 0, n)))

\* index is the position of the last cell read with p == 0; zeros counts those cells
libsais_final_bwt_scan_right_to_left_8u(T, SA, induction_bucket, buckets, omp_block_start, omp_block_size) ==
  After(SA, After(buckets,
    LET RECURSIVE loop(_, _, _, _, _)
        loop(i, sa, b, index, zeros) ==
          IF i >= omp_block_start
          THEN LET p0 == sa[i]
                   index1 == IF p0 = 0 THEN i ELSE index
                   zeros1 == zeros + B2I(p0 = 0)
                   sa1 == [sa EXCEPT ![i] = AndMax(p0)]
               IN IF p0 > 0
                  THEN LET p == p0 - 1
                           c0 == T[p - B2I(p > 0)]
                           c1 == T[p]
                           sa2 == [sa1 EXCEPT ![i] = c1]
                           b1 == [b EXCEPT ![induction_bucket + c1] = @ - 1]
                       IN loop(i - 1,
                               [sa2 EXCEPT ![b1[induction_bucket + c1]] = IF c0 <= c1 THEN p ELSE OrMin(c0)],
                               b1, index1, zeros1)
                  ELSE loop(i - 1, sa1, b, index1, zeros1)
          ELSE [SA |-> sa, buckets |-> b, index |-> index, zeros |-> zeros]
    IN loop(omp_block_start + omp_block_size - 1, SA, buckets, -1, 0)))

\* the right-to-left pass writing a suffix before it moves the end of the
\* bucket down, not after
libsais_final_sorting_scan_right_to_left_8u_post(T, SA, induction_bucket, buckets, omp_block_start, omp_block_size) ==
  After(SA, After(buckets,
    LET RECURSIVE loop(_, _, _)
        loop(i, sa, b) ==
          IF i >= omp_block_start
          THEN LET p0 == sa[i]
                   sa1 == [sa EXCEPT ![i] = AndMax(p0)]
               IN IF p0 > 0
                  THEN LET p == p0 - 1
                           b1 == [b EXCEPT ![induction_bucket + T[p]] = @ - 1]
                       IN loop(i - 1,
                               [sa1 EXCEPT ![b[induction_bucket + T[p]]] = OrFlag(p, T[p - B2I(p > 0)] > T[p])],
                               b1)
                  ELSE loop(i - 1, sa1, b)
          ELSE [SA |-> sa, buckets |-> b]
    IN loop(omp_block_start + omp_block_size - 1, SA, buckets)))

libsais_final_sorting_scan_right_to_left_8u(T, SA, induction_bucket, buckets, omp_block_start, omp_block_size) ==
  After(SA, After(buckets,
    LET RECURSIVE loop(_, _, _)
        loop(i, sa, b) ==
          IF i >= omp_block_start
          THEN LET p0 == sa[i]
                   sa1 == [sa EXCEPT ![i] = AndMax(p0)]
               IN IF p0 > 0
                  THEN LET p == p0 - 1
                           b1 == [b EXCEPT ![induction_bucket + T[p]] = @ - 1]
                       IN loop(i - 1,
                               [sa1 EXCEPT ![b1[induction_bucket + T[p]]] = OrFlag(p, T[p - B2I(p > 0)] > T[p])],
                               b1)
                  ELSE loop(i - 1, sa1, b)
          ELSE [SA |-> sa, buckets |-> b]
    IN loop(omp_block_start + omp_block_size - 1, SA, buckets)))

\* the right-to-left pass with the last cell of SA left out of the scan
libsais_final_bwt_scan_right_to_left_8u_short(T, SA, n, induction_bucket, buckets, threads) ==
  After(SA, After(buckets,
    libsais_final_bwt_scan_right_to_left_8u(T, SA, induction_bucket, buckets, 0, n - 1)))

libsais_final_bwt_scan_right_to_left_8u_omp(T, SA, n, induction_bucket, buckets, threads) ==
  After(SA, After(buckets,
    libsais_final_bwt_scan_right_to_left_8u(T, SA, induction_bucket, buckets, 0, n)))

\* the right-to-left pass with the last cell of SA left out of the scan
libsais_final_sorting_scan_right_to_left_8u_short(T, SA, n, induction_bucket, buckets, threads) ==
  After(SA, After(buckets,
    libsais_final_sorting_scan_right_to_left_8u(T, SA, induction_bucket, buckets, 0, n - 1)))

libsais_final_sorting_scan_right_to_left_8u_omp(T, SA, n, induction_bucket, buckets, threads) ==
  After(SA, After(buckets,
    libsais_final_sorting_scan_right_to_left_8u(T, SA, induction_bucket, buckets, 0, n)))

libsais_clear_lms_suffixes_omp(SA, n, k, bucket_start, bucket_end, buckets, threads) ==
  After(SA,
    LET RECURSIVE loop(_, _)
        loop(c, sa) ==
          IF c < k
          THEN loop(c + 1, IF buckets[bucket_end + c] > buckets[bucket_start + c]
                           THEN MemSet(sa, buckets[bucket_start + c],
                                       buckets[bucket_end + c] - buckets[bucket_start + c], 0)
                           ELSE sa)
          ELSE sa
    IN loop(0, SA))

libsais_induce_final_order_8u_omp(T, SA, n, bwt, buckets, threads) ==
  After(SA, After(buckets,
    IF bwt
    THEN LET r1 == libsais_final_bwt_scan_left_to_right_8u_omp(T, SA, n, 6 * ALPHABET_SIZE, buckets, threads)
             sa2 == libsais_clear_lms_suffixes_omp(r1.SA, n, ALPHABET_SIZE, 6 * ALPHABET_SIZE,
                                                   7 * ALPHABET_SIZE, r1.buckets, threads)
             r3 == libsais_final_bwt_scan_right_to_left_8u_omp(T, sa2, n, 7 * ALPHABET_SIZE, r1.buckets, threads)
         IN [SA |-> r3.SA, buckets |-> r3.buckets, index |-> r3.index, zeros |-> r3.zeros]
    ELSE LET r1 == libsais_final_sorting_scan_left_to_right_8u_omp(T, SA, n, 6 * ALPHABET_SIZE, buckets, threads)
             sa2 == IF threads > 1 /\ n >= 65536
                    THEN libsais_clear_lms_suffixes_omp(r1.SA, n, ALPHABET_SIZE, 6 * ALPHABET_SIZE,
                                                        7 * ALPHABET_SIZE, r1.buckets, threads)
                    ELSE r1.SA
             r3 == libsais_final_sorting_scan_right_to_left_8u_omp(T, sa2, n, 7 * ALPHABET_SIZE, r1.buckets, threads)
         IN [SA |-> r3.SA, buckets |-> r3.buckets, index |-> 0, zeros |-> 0]))

\* ---------------------------------------------------- integer path: scanner
\* The comparison c0 > c1 - (s & 1) is made in ptrdiff_t; it is written here as
\* c0 + (s & 1) > c1, which stays inside 32 bits for marked (negative) symbols.

libsais_gather_lms_suffixes_32s(T, SA, n) ==
  After(SA,
    LET RECURSIVE scan(_, _, _, _, _)
        scan(i, c1, s, m, sa) ==
          IF i >= 0
          THEN LET c0 == sa[T + i]
                   s1 == ((2 * s) + B2I(c0 + (s % 2) > c1)) % 4
               IN scan(i - 1, c0, s1, m - B2I(s1 = 1), [sa EXCEPT ![m] = i + 1])
          ELSE [SA |-> sa, m |-> (n - 1) - m]
    IN scan(n - 2, SA[T + (n - 1)], 1, n - 1, SA))

libsais_gather_compacted_lms_suffixes_32s(T, SA, n) ==
  After(SA,
    LET RECURSIVE scan(_, _, _, _, _)
        scan(i, c1, s, m, sa) ==
          IF i >= 0
          THEN LET c0 == sa[T + i]
                   s1 == ((2 * s) + B2I(c0 + (s % 2) > c1)) % 4
               IN scan(i - 1, c0, s1, m - B2I(s1 = B2I(c1 >= 0)), [sa EXCEPT ![m] = i + 1])
          ELSE [SA |-> sa, m |-> (n - 1) - m]
    IN scan(n - 2, SA[T + (n - 1)], 1, n - 1, SA))

libsais_count_lms_suffixes_32s_2k(T, SA, n, k, buckets) ==
  After(SA,
    LET RECURSIVE scan(_, _, _, _)
        scan(i, c1, s, sa) ==
          IF i >= 0
          THEN LET c0 == sa[T + i]
                   s1 == ((2 * s) + B2I(c0 + (s % 2) > c1)) % 4
               IN scan(i - 1, c0, s1, [sa EXCEPT ![buckets + BUCKETS_INDEX2(c1, B2I(s1 = 1))] = @ + 1])
          ELSE [sa EXCEPT ![buckets + BUCKETS_INDEX2(c1, 0)] = @ + 1]
    IN scan(n - 2, SA[T + (n - 1)], 1, MemSet(SA, buckets, 2 * k, 0)))

libsais_count_and_gather_lms_suffixes_32s_4k(T, SA, n, k, buckets) ==
  After(SA,
    LET RECURSIVE scan(_, _, _, _, _)
        scan(i, c1, s, m, sa) ==
          IF i >= 0
          THEN LET c0 == sa[T + i]
                   s1 == ((2 * s) + B2I(c0 + (s % 2) > c1)) % 4
                   sa1 == [sa EXCEPT ![m] = i + 1]
               IN scan(i - 1, c0, s1, m - B2I(s1 = 1),
                       [sa1 EXCEPT ![buckets + BUCKETS_INDEX4(c1, s1)] = @ + 1])
          ELSE [SA |-> [sa EXCEPT ![buckets + BUCKETS_INDEX4(c1, (2 * s) % 4)] = @ + 1], m |-> (n - 1) - m]
    IN scan(n - 2, SA[T + (n - 1)], 1, n - 1, MemSet(SA, buckets, 4 * k, 0)))

libsais_count_and_gather_lms_suffixes_32s_2k(T, SA, n, k, buckets) ==
  After(SA,
    LET RECURSIVE scan(_, _, _, _, _)
        scan(i, c1, s, m, sa) ==
          IF i >= 0
          THEN LET c0 == sa[T + i]
                   s1 == ((2 * s) + B2I(c0 + (s % 2) > c1)) % 4
                   sa1 == [sa EXCEPT ![m] = i + 1]
               IN scan(i - 1, c0, s1, m - B2I(s1 = 1),
                       [sa1 EXCEPT ![buckets + BUCKETS_INDEX2(c1, B2I(s1 = 1))] = @ + 1])
          ELSE [SA |-> [sa EXCEPT ![buckets + BUCKETS_INDEX2(c1, 0)] = @ + 1], m |-> (n - 1) - m]
    IN scan(n - 2, SA[T + (n - 1)], 1, n - 1, MemSet(SA, buckets, 2 * k, 0)))

libsais_count_and_gather_compacted_lms_suffixes_32s_2k(T, SA, n, k, buckets) ==
  After(SA,
    LET RECURSIVE scan(_, _, _, _, _)
        scan(i, c1, s, m, sa) ==
          IF i >= 0
          THEN LET c0 == sa[T + i]
                   s1 == ((2 * s) + B2I(c0 + (s % 2) > c1)) % 4
                   sa1 == [sa EXCEPT ![m] = i + 1]
               IN scan(i - 1, c0, s1, m - B2I(s1 = B2I(c1 >= 0)),
                       [sa1 EXCEPT ![buckets + BUCKETS_INDEX2(AndMax(c1), B2I(s1 = 1))] = @ + 1])
          ELSE [SA |-> [sa EXCEPT ![buckets + BUCKETS_INDEX2(AndMax(c1), 0)] = @ + 1], m |-> (n - 1) - m]
    IN scan(n - 2, SA[T + (n - 1)], 1, n - 1, MemSet(SA, buckets, 2 * k, 0)))

libsais_count_suffixes_32s(T, SA, n, k, buckets) ==
  After(SA,
    LET RECURSIVE loop(_, _)
        loop(i, sa) ==
          IF i < n THEN loop(i + 1, [sa EXCEPT ![buckets + sa[T + i]] = @ + 1]) ELSE sa
    IN loop(0, MemSet(SA, buckets, k, 0)))

\* ---------------------------------------------- integer path: bucket tables

libsais_initialize_buckets_start_and_end_32s_6k(SA, k, buckets) ==
  After(SA,
    LET bucket_start == buckets + (4 * k)
        bucket_end == buckets + (5 * k)
        RECURSIVE loop(_, _, _)
        loop(j, sum, sa) ==
          IF j <= k - 1
          THEN LET i == buckets + BUCKETS_INDEX4(j, 0)
                   sum1 == sum + sa[i + BUCKETS_INDEX4(0, 0)] + sa[i + BUCKETS_INDEX4(0, 1)]
                               + sa[i + BUCKETS_INDEX4(0, 2)] + sa[i + BUCKETS_INDEX4(0, 3)]
                   sa1 == [sa EXCEPT ![bucket_start + j] = sum]
               IN loop(j + 1, sum1, [sa1 EXCEPT ![bucket_end + j] = sum1])
          ELSE sa
    IN loop(0, 0, SA))

libsais_initialize_buckets_start_and_end_32s_4k(SA, k, buckets) ==
  After(SA,
    LET bucket_start == buckets + (2 * k)
        bucket_end == buckets + (3 * k)
        RECURSIVE loop(_, _, _)
        loop(j, sum, sa) ==
          IF j <= k - 1
          THEN LET i == buckets + BUCKETS_INDEX2(j, 0)
                   sum1 == sum + sa[i + BUCKETS_INDEX2(0, 0)] + sa[i + BUCKETS_INDEX2(0, 1)]
                   sa1 == [sa EXCEPT ![bucket_start + j] = sum]
               IN loop(j + 1, sum1, [sa1 EXCEPT ![bucket_end + j] = sum1])
          ELSE sa
    IN loop(0, 0, SA))

libsais_initialize_buckets_end_32s_2k(SA, k, buckets) ==
  After(SA,
    LET RECURSIVE loop(_, _, _)
        loop(c, sum0, sa) ==
          IF c <= k - 1
          THEN LET i == buckets + BUCKETS_INDEX2(c, 0)
                   s0 == sum0 + sa[i + BUCKETS_INDEX2(0, 0)] + sa[i + BUCKETS_INDEX2(0, 1)]
               IN loop(c + 1, s0, [sa EXCEPT ![i + BUCKETS_INDEX2(0, 0)] = s0])
          ELSE sa
    IN loop(0, 0, SA))

libsais_initialize_buckets_start_and_end_32s_2k(SA, k, buckets) ==
  After(SA,
    LET RECURSIVE loop(_, _)
        loop(j, sa) ==
          IF j <= k - 1
          THEN loop(j + 1, [sa EXCEPT ![buckets + j] = sa[buckets + BUCKETS_INDEX2(j, 0)]])
          ELSE sa
        sa1 == loop(0, SA)
        sa2 == [sa1 EXCEPT ![buckets + k] = 0]
    IN MemMove(sa2, buckets + k + 1, buckets, k - 1))

libsais_initialize_buckets_start_32s_1k(SA, k, buckets) ==
  After(SA,
    LET RECURSIVE loop(_, _, _)
        loop(i, sum, sa) ==
          IF i <= k - 1
          THEN loop(i + 1, sum + sa[buckets + i], [sa EXCEPT ![buckets + i] = sum])
          ELSE sa
    IN loop(0, 0, SA))

libsais_initialize_buckets_end_32s_1k(SA, k, buckets) ==
  After(SA,
    LET RECURSIVE loop(_, _, _)
        loop(i, sum, sa) ==
          IF i <= k - 1
          THEN loop(i + 1, sum + sa[buckets + i], [sa EXCEPT ![buckets + i] = sum + sa[buckets + i]])
          ELSE sa
    IN loop(0, 0, SA))

libsais_initialize_buckets_for_lms_suffixes_radix_sort_32s_2k(T, SA, k, buckets, first_lms_suffix) ==
  After(SA,
    LET c == SA[T + first_lms_suffix]
        sa0 == [SA EXCEPT ![buckets + BUCKETS_INDEX2(c, 0)] = @ + 1]
        sa1 == [sa0 EXCEPT ![buckets + BUCKETS_INDEX2(c, 1)] = @ - 1]
        RECURSIVE loop(_, _, _, _)
        loop(j, sum0, sum1, sa) ==
          IF j <= k - 1
          THEN LET i == buckets + BUCKETS_INDEX2(j, 0)
                   s0 == sum0 + sa[i + BUCKETS_INDEX2(0, 0)] + sa[i + BUCKETS_INDEX2(0, 1)]
                   s1 == sum1 + sa[i + BUCKETS_INDEX2(0, 1)]
                   t == [sa EXCEPT ![i + BUCKETS_INDEX2(0, 0)] = s0]
               IN loop(j + 1, s0, s1, [t EXCEPT ![i + BUCKETS_INDEX2(0, 1)] = s1])
          ELSE sa
    IN loop(0, 0, 0, sa1))

libsais_initialize_buckets_for_lms_suffixes_radix_sort_32s_6k(T, SA, k, buckets, first_lms_suffix) ==
  After(SA,
    LET RECURSIVE back(_, _, _, _)
        back(i, c1, s, sa) ==
          IF i >= 0
          THEN LET c0 == sa[T + i]
                   s1 == ((2 * s) + B2I(c0 + (s % 2) > c1)) % 4
               IN back(i - 1, c0, s1, [sa EXCEPT ![buckets + BUCKETS_INDEX4(c1, s1)] = @ - 1])
          ELSE [sa EXCEPT ![buckets + BUCKETS_INDEX4(c1, (2 * s) % 4)] = @ - 1]
        sa1 == back(first_lms_suffix - 1, SA[T + first_lms_suffix], 0, SA)
        temp_bucket == buckets + (4 * k)
        RECURSIVE loop(_, _, _)
        loop(j, sum, sa) ==
          IF j <= k - 1
          THEN LET i == buckets + BUCKETS_INDEX4(j, 0)
                   sum1 == sum + sa[i + BUCKETS_INDEX4(0, 1)] + sa[i + BUCKETS_INDEX4(0, 3)]
               IN loop(j + 1, sum1, [sa EXCEPT ![temp_bucket + j] = sum1])
          ELSE [SA |-> sa, sum |-> sum]
    IN loop(0, 0, sa1))

libsais_initialize_buckets_for_radix_and_partial_sorting_32s_4k(T, SA, k, buckets, first_lms_suffix) ==
  After(SA,
    LET bucket_start == buckets + (2 * k)
        bucket_end == buckets + (3 * k)
        c == SA[T + first_lms_suffix]
        sa0 == [SA EXCEPT ![buckets + BUCKETS_INDEX2(c, 0)] = @ + 1]
        sa1 == [sa0 EXCEPT ![buckets + BUCKETS_INDEX2(c, 1)] = @ - 1]
        RECURSIVE loop(_, _, _, _)
        loop(j, sum0, sum1, sa) ==
          IF j <= k - 1
          THEN LET i == buckets + BUCKETS_INDEX2(j, 0)
                   t1 == [sa EXCEPT ![bucket_start + j] = sum1]
                   s0 == sum0 + t1[i + BUCKETS_INDEX2(0, 1)]
                   s1 == sum1 + t1[i + BUCKETS_INDEX2(0, 0)] + t1[i + BUCKETS_INDEX2(0, 1)]
                   t2 == [t1 EXCEPT ![i + BUCKETS_INDEX2(0, 1)] = s0]
               IN loop(j + 1, s0, s1, [t2 EXCEPT ![bucket_end + j] = s1])
          ELSE sa
    IN loop(0, 0, 0, sa1))

libsais_initialize_buckets_for_partial_sorting_32s_6k(T, SA, k, buckets, first_lms_suffix, left_suffixes_count) ==
  After(SA,
    LET temp_bucket == buckets + (4 * k)
        first == SA[T + first_lms_suffix]
        \* both loops of the source run this body; the second starts after sum1 += 1
        RECURSIVE loop(_, _, _, _, _)
        loop(c, sum0, sum1, sum2, sa) ==
          IF c <= k - 1
          THEN LET i == buckets + BUCKETS_INDEX4(c, 0)
                   j == temp_bucket + BUCKETS_INDEX2(c, 0)
                   sum1a == IF c = first THEN sum1 + 1 ELSE sum1
                   SS == sa[i + BUCKETS_INDEX4(0, 0)]
                   LS == sa[i + BUCKETS_INDEX4(0, 1)]
                   SL == sa[i + BUCKETS_INDEX4(0, 2)]
                   LL == sa[i + BUCKETS_INDEX4(0, 3)]
                   t1 == [sa EXCEPT ![i + BUCKETS_INDEX4(0, 0)] = sum0]
                   t2 == [t1 EXCEPT ![i + BUCKETS_INDEX4(0, 1)] = sum2]
                   t3 == [t2 EXCEPT ![i + BUCKETS_INDEX4(0, 2)] = 0]
                   t4 == [t3 EXCEPT ![i + BUCKETS_INDEX4(0, 3)] = 0]
                   t5 == [t4 EXCEPT ![j + BUCKETS_INDEX2(0, 0)] = sum0 + SS + SL]
               IN loop(c + 1, sum0 + SS + SL, sum1a + LS, sum2 + LS + LL,
                       [t5 EXCEPT ![j + BUCKETS_INDEX2(0, 1)] = sum1a + LS])
          ELSE sa
    IN loop(0, left_suffixes_count + 1, 0, 0, SA))

\* ---------------------------------------------- integer path: radix placer

libsais_radix_sort_lms_suffixes_32s_6k(T, SA, n, m, induction_bucket) ==
  After(SA,
    LET RECURSIVE loop(_, _)
        loop(i, sa) ==
          IF i > n - m
          THEN LET p == sa[i]
                   v == induction_bucket + sa[T + p]
                   sa1 == [sa EXCEPT ![v] = @ - 1]
               IN loop(i - 1, [sa1 EXCEPT ![sa1[v]] = p])
          ELSE sa
    IN loop(n - 1, SA))

libsais_radix_sort_lms_suffixes_32s_2k(T, SA, n, m, induction_bucket) ==
  After(SA,
    LET RECURSIVE loop(_, _)
        loop(i, sa) ==
          IF i > n - m
          THEN LET p == sa[i]
                   v == induction_bucket + BUCKETS_INDEX2(sa[T + p], 0)
                   sa1 == [sa EXCEPT ![v] = @ - 1]
               IN loop(i - 1, [sa1 EXCEPT ![sa1[v]] = p])
          ELSE sa
    IN loop(n - 1, SA))

libsais_radix_sort_lms_suffixes_32s_1k(T, SA, n, buckets) ==
  After(SA,
    LET RECURSIVE scan(_, _, _, _, _, _)
        scan(i, c1, s, m, c2, sa) ==
          IF i >= 0
          THEN LET c0 == sa[T + i]
                   s1 == ((2 * s) + B2I(c0 + (s % 2) > c1)) % 4
               IN IF s1 = 1
                  THEN LET sa1 == [sa EXCEPT ![buckets + c1] = @ - 1]
                       IN scan(i - 1, c0, s1, m + 1, c1, [sa1 EXCEPT ![sa1[buckets + c1]] = i + 1])
                  ELSE scan(i - 1, c0, s1, m, c2, sa)
          ELSE [SA |-> IF m > 1 THEN [sa EXCEPT ![sa[buckets + c2]] = 0] ELSE sa, m |-> m]
    IN scan(n - 2, SA[T + (n - 1)], 1, 0, 0, SA))

libsais_radix_sort_set_markers_32s_6k(SA, induction_bucket, omp_block_start, omp_block_size) ==
  After(SA,
    LET RECURSIVE loop(_, _)
        loop(i, sa) ==
          IF i < omp_block_start + omp_block_size
          THEN loop(i + 1, [sa EXCEPT ![sa[induction_bucket + i]] = OrMin(@)])
          ELSE sa
    IN loop(omp_block_start, SA))

libsais_radix_sort_set_markers_32s_4k(SA, induction_bucket, omp_block_start, omp_block_size) ==
  After(SA,
    LET RECURSIVE loop(_, _)
        loop(i, sa) ==
          IF i < omp_block_start + omp_block_size
          THEN loop(i + 1, [sa EXCEPT ![sa[induction_bucket + BUCKETS_INDEX2(i, 0)]] = OrMarker(@)])
          ELSE sa
    IN loop(omp_block_start, SA))

libsais_radix_sort_set_markers_32s_6k_omp(SA, k, induction_bucket, threads) ==
  After(SA,
    libsais_radix_sort_set_markers_32s_6k(SA, induction_bucket, 0, k - 1))

libsais_radix_sort_set_markers_32s_4k_omp(SA, k, induction_bucket, threads) ==
  After(SA,
    libsais_radix_sort_set_markers_32s_4k(SA, induction_bucket, 0, k - 1))

\* ------------------------------------------- integer path: induction scanner

libsais_partial_sorting_scan_left_to_right_32s_6k(T, SA, n, buckets, left_suffixes_count, d) ==
  After(SA,
    LET v0 == buckets + BUCKETS_INDEX4(SA[T + (n - 1)], B2I(SA[T + (n - 2)] >= SA[T + (n - 1)]))
        sa0 == [SA EXCEPT ![SA[v0]] = OrMin(n - 1)]
        sa1 == [sa0 EXCEPT ![v0] = @ + 1]
        sa2 == [sa1 EXCEPT ![2 + v0] = d + 1]
        RECURSIVE loop(_, _, _)
        loop(i, sa, dd) ==
          IF i < left_suffixes_count
          THEN LET p0 == sa[i]
                   d1 == dd + B2I(p0 < 0)
                   p == AndMax(p0)
                   v == buckets + BUCKETS_INDEX4(sa[T + (p - 1)], B2I(sa[T + (p - 2)] >= sa[T + (p - 1)]))
                   t1 == [sa EXCEPT ![sa[v]] = OrFlag(p - 1, sa[2 + v] # d1)]
                   t2 == [t1 EXCEPT ![v] = @ + 1]
               IN loop(i + 1, [t2 EXCEPT ![2 + v] = d1], d1)
          ELSE [SA |-> sa, d |-> dd]
    IN loop(0, sa2, d + 1))

libsais_partial_sorting_scan_left_to_right_32s_4k(T, SA, n, k, buckets, d) ==
  After(SA,
    LET induction_bucket == buckets + (2 * k)
        distinct_names == buckets + (0 * k)
        cn == SA[T + (n - 1)]
        fn == SA[T + (n - 2)] < cn
        sa0 == [SA EXCEPT ![SA[induction_bucket + cn]] = OrMarker(OrFlag(n - 1, fn))]
        sa1 == [sa0 EXCEPT ![induction_bucket + cn] = @ + 1]
        sa2 == [sa1 EXCEPT ![distinct_names + BUCKETS_INDEX2(cn, B2I(fn))] = d + 1]
        RECURSIVE loop(_, _, _)
        loop(i, sa, dd) ==
          IF i < n
          THEN LET p0 == sa[i]
               IN IF p0 > 0
                  THEN LET t0 == [sa EXCEPT ![i] = 0]
                           d1 == dd + (p0 \div SUFFIX_GROUP_MARKER)
                           p == AndNotMarker(p0)
                           c == t0[T + (p - 1)]
                           f == t0[T + (p - 2)] < c
                           v == distinct_names + BUCKETS_INDEX2(c, B2I(f))
                           t1 == [t0 EXCEPT ![t0[induction_bucket + c]] =
                                    OrFlag((p - 1) + (B2I(t0[v] # d1) * SUFFIX_GROUP_MARKER), f)]
                           t2 == [t1 EXCEPT ![induction_bucket + c] = @ + 1]
                       IN loop(i + 1, [t2 EXCEPT ![v] = d1], d1)
                  ELSE loop(i + 1, [sa EXCEPT ![i] = AndMax(p0)], dd)
          ELSE [SA |-> sa, d |-> dd]
    IN loop(0, sa2, d + 1))

libsais_partial_sorting_scan_left_to_right_32s_1k(T, SA, n, induction_bucket) ==
  After(SA,
    LET cn == SA[T + (n - 1)]
        sa0 == [SA EXCEPT ![SA[induction_bucket + cn]] = OrFlag(n - 1, SA[T + (n - 2)] < cn)]
        sa1 == [sa0 EXCEPT ![induction_bucket + cn] = @ + 1]
        RECURSIVE loop(_, _)
        loop(i, sa) ==
          IF i < n
          THEN LET p0 == sa[i]
               IN IF p0 > 0
                  THEN LET t0 == [sa EXCEPT ![i] = 0]
                           c == t0[T + (p0 - 1)]
                           t1 == [t0 EXCEPT ![t0[induction_bucket + c]] = OrFlag(p0 - 1, t0[T + (p0 - 2)] < c)]
                       IN loop(i + 1, [t1 EXCEPT ![induction_bucket + c] = @ + 1])
                  ELSE loop(i + 1, [sa EXCEPT ![i] = AndMax(p0)])
          ELSE sa
    IN loop(0, sa1))

libsais_partial_sorting_shift_markers_32s_6k_omp(SA, k, buckets, threads) ==
  After(SA,
    LET temp_bucket == buckets + (4 * k)
        RECURSIVE inner(_, _, _, _)
        inner(i, j, s, sa) ==
          IF i >= j
          THEN LET p == sa[i]
                   q == (p < 0) # s
               IN inner(i - 1, j, p < 0, [sa EXCEPT ![i] = IF q THEN XorMin(p) ELSE p])
          ELSE sa
        RECURSIVE outer(_, _)
        outer(c, sa) ==
          IF c >= 1
          THEN outer(c - 1, inner(sa[buckets + BUCKETS_INDEX4(c, 0)] - 1,
                                  sa[temp_bucket + BUCKETS_INDEX2(c - 1, 0)], TRUE, sa))
          ELSE sa
    IN outer(k - 1, SA))

libsais_partial_sorting_shift_markers_32s_4k(SA, n) ==
  After(SA,
    LET RECURSIVE loop(_, _, _)
        loop(i, s, sa) ==
          IF i >= 0
          THEN LET p == sa[i]
                   q == (p > 0) /\ (HasMarker(p) # s)
               IN loop(i - 1, s # q, [sa EXCEPT ![i] = IF q THEN XorMarker(p) ELSE p])
          ELSE sa
    IN loop(n - 1, TRUE, SA))

libsais_partial_sorting_shift_buckets_32s_6k(SA, k, buckets) ==
  After(SA,
    LET temp_bucket == buckets + (4 * k)
        RECURSIVE loop(_, _)
        loop(c, sa) ==
          IF c <= k - 1
          THEN LET i == BUCKETS_INDEX2(c, 0)
                   t == [sa EXCEPT ![buckets + (2 * i) + BUCKETS_INDEX4(0, 0)] = sa[temp_bucket + i + BUCKETS_INDEX2(0, 0)]]
               IN loop(c + 1, [t EXCEPT ![buckets + (2 * i) + BUCKETS_INDEX4(0, 1)] = t[temp_bucket + i + BUCKETS_INDEX2(0, 1)]])
          ELSE sa
    IN loop(0, SA))

libsais_partial_sorting_scan_right_to_left_32s_6k(T, SA, n, buckets, first_lms_suffix, left_suffixes_count, d) ==
  After(SA,
    LET RECURSIVE loop(_, _, _)
        loop(i, sa, dd) ==
          IF i >= left_suffixes_count + 1
          THEN LET p0 == sa[i]
                   d1 == dd + B2I(p0 < 0)
                   p == AndMax(p0)
                   v == buckets + BUCKETS_INDEX4(sa[T + (p - 1)], B2I(sa[T + (p - 2)] > sa[T + (p - 1)]))
                   t1 == [sa EXCEPT ![v] = @ - 1]
                   t2 == [t1 EXCEPT ![t1[v]] = OrFlag(p - 1, t1[2 + v] # d1)]
               IN loop(i - 1, [t2 EXCEPT ![2 + v] = d1], d1)
          ELSE [SA |-> sa, d |-> dd]
    IN loop((n - first_lms_suffix) - 1, SA, d))

libsais_partial_sorting_scan_right_to_left_32s_4k(T, SA, n, k, buckets, d) ==
  After(SA,
    LET induction_bucket == buckets + (3 * k)
        distinct_names == buckets + (0 * k)
        RECURSIVE loop(_, _, _)
        loop(i, sa, dd) ==
          IF i >= 0
          THEN LET p0 == sa[i]
               IN IF p0 > 0
                  THEN LET t0 == [sa EXCEPT ![i] = 0]
                           d1 == dd + (p0 \div SUFFIX_GROUP_MARKER)
                           p == AndNotMarker(p0)
                           c == t0[T + (p - 1)]
                           f == t0[T + (p - 2)] > c
                           v == distinct_names + BUCKETS_INDEX2(c, B2I(f))
                           t1 == [t0 EXCEPT ![induction_bucket + c] = @ - 1]
                           t2 == [t1 EXCEPT ![t1[induction_bucket + c]] =
                                    OrFlag((p - 1) + (B2I(t1[v] # d1) * SUFFIX_GROUP_MARKER), f)]
                       IN loop(i - 1, [t2 EXCEPT ![v] = d1], d1)
                  ELSE loop(i - 1, sa, dd)
          ELSE [SA |-> sa, d |-> dd]
    IN loop(n - 1, SA, d))

libsais_partial_sorting_scan_right_to_left_32s_1k(T, SA, n, induction_bucket) ==
  After(SA,
    LET RECURSIVE loop(_, _)
        loop(i, sa) ==
          IF i >= 0
          THEN LET p0 == sa[i]
               IN IF p0 > 0
                  THEN LET t0 == [sa EXCEPT ![i] = 0]
                           c == t0[T + (p0 - 1)]
                           t1 == [t0 EXCEPT ![induction_bucket + c] = @ - 1]
                       IN loop(i - 1, [t1 EXCEPT ![t1[induction_bucket + c]] = OrFlag(p0 - 1, t1[T + (p0 - 2)] > c)])
                  ELSE loop(i - 1, sa)
          ELSE sa
    IN loop(n - 1, SA))

libsais_partial_sorting_gather_lms_suffixes_32s_4k(SA, n) ==
  After(SA,
    LET RECURSIVE loop(_, _, _)
        loop(i, l, sa) ==
          IF i < n
          THEN LET s == sa[i]
               IN loop(i + 1, l + B2I(s < 0), [sa EXCEPT ![l] = AndNotMarker(Sub32(s, SUFFIX_GROUP_MARKER))])
          ELSE sa
    IN loop(0, 0, SA))

libsais_partial_sorting_gather_lms_suffixes_32s_1k(SA, n) ==
  After(SA,
    LET RECURSIVE loop(_, _, _)
        loop(i, l, sa) ==
          IF i < n
          THEN LET s == sa[i]
               IN loop(i + 1, l + B2I(s < 0), [sa EXCEPT ![l] = AndMax(s)])
          ELSE sa
    IN loop(0, 0, SA))

libsais_induce_partial_order_32s_6k(T, SA, n, k, buckets, first_lms_suffix, left_suffixes_count, threads) ==
  After(SA,
    LET r1 == libsais_partial_sorting_scan_left_to_right_32s_6k(T, SA, n, buckets, left_suffixes_count, 0)
        sa2 == libsais_partial_sorting_shift_markers_32s_6k_omp(r1.SA, k, buckets, threads)
        sa3 == libsais_partial_sorting_shift_buckets_32s_6k(sa2, k, buckets)
    IN libsais_partial_sorting_scan_right_to_left_32s_6k(T, sa3, n, buckets, first_lms_suffix,
                                                         left_suffixes_count, r1.d).SA)

libsais_induce_partial_order_32s_4k(T, SA, n, k, buckets) ==
  After(SA,
    LET sa0 == MemSet(SA, buckets, 2 * k, 0)
        r1 == libsais_partial_sorting_scan_left_to_right_32s_4k(T, sa0, n, k, buckets, 0)
        sa2 == libsais_partial_sorting_shift_markers_32s_4k(r1.SA, n)
        r3 == libsais_partial_sorting_scan_right_to_left_32s_4k(T, sa2, n, k, buckets, r1.d)
    IN libsais_partial_sorting_gather_lms_suffixes_32s_4k(r3.SA, n))

libsais_induce_partial_order_32s_2k(T, SA, n, k, buckets) ==
  After(SA,
    LET sa1 == libsais_partial_sorting_scan_left_to_right_32s_1k(T, SA, n, buckets + (1 * k))
        sa2 == libsais_partial_sorting_scan_right_to_left_32s_1k(T, sa1, n, buckets + (0 * k))
    IN libsais_partial_sorting_gather_lms_suffixes_32s_1k(sa2, n))

libsais_induce_partial_order_32s_1k(T, SA, n, k, buckets) ==
  After(SA,
    LET sa1 == libsais_count_suffixes_32s(T, SA, n, k, buckets)
        sa2 == libsais_initialize_buckets_start_32s_1k(sa1, k, buckets)
        sa3 == libsais_partial_sorting_scan_left_to_right_32s_1k(T, sa2, n, buckets)
        sa4 == libsais_count_suffixes_32s(T, sa3, n, k, buckets)
        sa5 == libsais_initialize_buckets_end_32s_1k(sa4, k, buckets)
        sa6 == libsais_partial_sorting_scan_right_to_left_32s_1k(T, sa5, n, buckets)
    IN libsais_partial_sorting_gather_lms_suffixes_32s_1k(sa6, n))

\* ----------------------------------------------------- integer path: namer

libsais_renumber_distinct_lms_suffixes_32s_4k(SA, m, name, omp_block_start, omp_block_size) ==
  After(SA,
    LET RECURSIVE loop(_, _, _, _)
        loop(i, p2, nm, sa) ==
          IF i < omp_block_start + omp_block_size
          THEN LET p3 == sa[i]
                   t == [sa EXCEPT ![i] = AndMax(p3)]
               IN loop(i + 1, p3, nm + B2I(p3 < 0),
                       [t EXCEPT ![m + (AndMax(p3) \div 2)] = OrFlag(nm, p3 < 0 /\ p2 < 0)])
          ELSE [SA |-> sa, name |-> nm]
    IN loop(omp_block_start, 0, name, SA))

libsais_mark_distinct_lms_suffixes_32s_4k(SA, m, omp_block_start, omp_block_size) ==
  After(SA,
    LET RECURSIVE loop(_, _, _)
        loop(i, p2, sa) ==
          IF i < m + omp_block_start + omp_block_size
          THEN LET p3 == sa[i]
               IN loop(i + 1, IF p3 = 0 THEN p2 ELSE p3,
                       [sa EXCEPT ![i] = IF p2 < 0 THEN p3 ELSE AndMax(p3)])
          ELSE sa
    IN loop(m + omp_block_start, 0, SA))

libsais_renumber_distinct_lms_suffixes_32s_4k_omp(SA, m, threads) ==
  After(SA,
    LET r == libsais_renumber_distinct_lms_suffixes_32s_4k(SA, m, 1, 0, m)
    IN [SA |-> r.SA, name |-> r.name - 1])

libsais_mark_distinct_lms_suffixes_32s_4k_omp(SA, n, m, threads) ==
  After(SA,
    libsais_mark_distinct_lms_suffixes_32s_4k(SA, m, 0, n \div 2))

\* the renumbering of the 4k variant reporting every LMS substring as distinct
libsais_renumber_and_mark_distinct_lms_suffixes_32s_4k_distinct(SA, n, m, threads) ==
  After(SA,
    [SA |-> libsais_renumber_distinct_lms_suffixes_32s_4k_omp(MemSet(SA, m, n \div 2, 0), m, threads).SA,
     name |-> m])

libsais_renumber_and_mark_distinct_lms_suffixes_32s_4k_omp(SA, n, m, threads) ==
  After(SA,
    LET r == libsais_renumber_distinct_lms_suffixes_32s_4k_omp(MemSet(SA, m, n \div 2, 0), m, threads)
    IN [SA |-> IF r.name < m THEN libsais_mark_distinct_lms_suffixes_32s_4k_omp(r.SA, n, m, threads) ELSE r.SA,
        name |-> r.name])

libsais_renumber_and_mark_distinct_lms_suffixes_32s_1k(T, SA, n, m) ==
  After(SA,
    LET sa0 == MemSet(libsais_gather_lms_suffixes_32s(T, SA, n).SA, m, (n - m) - m, 0)
        \* lengths of the LMS substrings, flagged with the sign bit
        RECURSIVE lens(_, _)
        lens(i, sa) ==
          IF i < n - 1
          THEN lens(i + 1, [sa EXCEPT ![m + (sa[i] \div 2)] = ((sa[i + 1] - sa[i]) + 1) + INT_MIN])
          ELSE [sa EXCEPT ![m + (sa[n - 1] \div 2)] = 1 + INT_MIN]
        sa1 == lens(n - m, sa0)
        RECURSIVE clean(_, _)
        clean(i, sa) ==
          IF i < n \div 2
          THEN clean(i + 1, [sa EXCEPT ![m + i] = IF @ < 0 THEN AndMax(@) ELSE 0])
          ELSE sa
        sa2 == clean(0, sa1)
        \* l after the do-while that compares T[p..] with T[q..] over plen symbols
        RECURSIVE cmp(_, _, _, _, _)
        cmp(sa, p, q, l, plen) ==
          IF sa[T + p + l] # sa[T + q + l] THEN l
          ELSE IF l + 1 < plen THEN cmp(sa, p, q, l + 1, plen) ELSE l + 1
        RECURSIVE names(_, _, _, _, _, _)
        names(i, p, plen, pdiff, nm, sa) ==
          IF i < m
          THEN LET q == sa[i]
                   qlen == sa[m + (q \div 2)]
                   qdiff == IF plen = qlen THEN cmp(sa, p, q, 0, plen) < plen ELSE TRUE
               IN names(i + 1, q, qlen, qdiff, nm + B2I(qdiff),
                        [sa EXCEPT ![m + (p \div 2)] = OrFlag(nm, pdiff /\ qdiff)])
          ELSE [SA |-> [sa EXCEPT ![m + (p \div 2)] = OrFlag(nm, pdiff)], name |-> nm + 1]
        r3 == names(1, sa2[0], sa2[m + (sa2[0] \div 2)], TRUE, 1, sa2)
        RECURSIVE mark(_, _, _)
        mark(i, p2, sa) ==
          IF i < m + (n \div 2)
          THEN LET p3 == sa[i]
               IN mark(i + 1, IF p3 = 0 THEN p2 ELSE p3,
                       [sa EXCEPT ![i] = IF p2 < 0 THEN p3 ELSE AndMax(p3)])
          ELSE sa
    IN [SA |-> IF r3.name <= m THEN mark(m, -1, r3.SA) ELSE r3.SA, name |-> r3.name - 1])

\* ------------------------------------- integer path: compaction and merging

\* the renumbering that leaves the names of the nonunique LMS suffixes as they are
libsais_renumber_unique_and_nonunique_lms_suffixes_32s_kept(T, SA, m, f, omp_block_start, omp_block_size) ==
  After(SA,
    LET RECURSIVE loop(_, _, _)
        loop(i, ff, sa) ==
          IF i < omp_block_start + omp_block_size
          THEN LET p == sa[i]
                   s == sa[m + (p \div 2)]
               IN IF s < 0
                  THEN LET t == [sa EXCEPT ![T + p] = OrMin(@)]
                       IN loop(i + 1, ff + 1, [t EXCEPT ![m + (p \div 2)] = i + INT_MIN])
                  ELSE loop(i + 1, ff, sa)
          ELSE [SA |-> sa, f |-> ff]
    IN loop(omp_block_start, f, SA))

libsais_renumber_unique_and_nonunique_lms_suffixes_32s(T, SA, m, f, omp_block_start, omp_block_size) ==
  After(SA,
    LET RECURSIVE loop(_, _, _)
        loop(i, ff, sa) ==
          IF i < omp_block_start + omp_block_size
          THEN LET p == sa[i]
                   s == sa[m + (p \div 2)]
               IN IF s < 0
                  THEN LET t == [sa EXCEPT ![T + p] = OrMin(@)]
                       IN loop(i + 1, ff + 1, [t EXCEPT ![m + (p \div 2)] = i + INT_MIN])
                  ELSE loop(i + 1, ff, [sa EXCEPT ![m + (p \div 2)] = s - ff])
          ELSE [SA |-> sa, f |-> ff]
    IN loop(omp_block_start, f, SA))

libsais_compact_unique_and_nonunique_lms_suffixes_32s(SA, m, pl, pr, omp_block_start, omp_block_size) ==
  After(SA,
    LET RECURSIVE loop(_, _, _, _)
        loop(i, l, r, sa) ==
          IF i >= m + omp_block_start
          THEN LET p == sa[i]
                   t == [sa EXCEPT ![l] = AndMax(p)]
               IN loop(i - 1, l - B2I(p < 0), r - B2I(p > 0), [t EXCEPT ![r] = Dec32(p)])
          ELSE [SA |-> sa, pl |-> l + 1, pr |-> r + 1]
    IN loop((m + omp_block_start + omp_block_size) - 1, pl - 1, pr - 1, SA))

libsais_renumber_unique_and_nonunique_lms_suffixes_32s_omp(T, SA, m, threads) ==
  After(SA,
    libsais_renumber_unique_and_nonunique_lms_suffixes_32s(T, SA, m, 0, 0, m))

\* the compaction that leaves the entries of the unique LMS suffixes where the
\* scan put them, below m
libsais_compact_unique_and_nonunique_lms_suffixes_32s_omp_unmoved(SA, n, m, fs, f, threads) ==
  After(SA,
    libsais_compact_unique_and_nonunique_lms_suffixes_32s(SA, m, m, n + fs, 0, n \div 2).SA)

libsais_compact_unique_and_nonunique_lms_suffixes_32s_omp(SA, n, m, fs, f, threads) ==
  After(SA,
    LET r == libsais_compact_unique_and_nonunique_lms_suffixes_32s(SA, m, m, n + fs, 0, n \div 2)
    IN MemMove(r.SA, (n + fs) - m, m - f, f))

libsais_compact_lms_suffixes_32s_omp(T, SA, n, m, fs, threads) ==
  After(SA,
    LET r == libsais_renumber_unique_and_nonunique_lms_suffixes_32s_omp(T, SA, m, threads)
    IN [SA |-> libsais_compact_unique_and_nonunique_lms_suffixes_32s_omp(r.SA, n, m, fs, r.f, threads), f |-> r.f])

\* the merge that clears the marker and flips the lowest bit of the symbol
\* the merge that leaves the lowest bit of an unmarked symbol set
libsais_merge_unique_lms_suffixes_32s_odd(T, SA, n, m, l, omp_block_start, omp_block_size) ==
  After(SA,
    LET RECURSIVE loop(_, _, _, _)
        loop(i, tmp, SAnm, sa) ==
          IF i < omp_block_start + omp_block_size
          THEN LET c == sa[T + i]
               IN IF c < 0
                  THEN LET t1 == [sa EXCEPT ![T + i] = AndMax(c) + (1 - (AndMax(c) % 2))]
                           t2 == [t1 EXCEPT ![tmp] = i]
                       IN loop(i + 2, t2[SAnm], SAnm + 1, t2)
                  ELSE loop(i + 1, tmp, SAnm, sa)
          ELSE sa
    IN loop(omp_block_start, SA[((n - m) - 1) + l], (n - m) + l, SA))

libsais_merge_unique_lms_suffixes_32s_low(T, SA, n, m, l, omp_block_start, omp_block_size) ==
  After(SA,
    LET RECURSIVE loop(_, _, _, _)
        loop(i, tmp, SAnm, sa) ==
          IF i < omp_block_start + omp_block_size
          THEN LET c == sa[T + i]
               IN IF c < 0
                  THEN LET t1 == [sa EXCEPT ![T + i] = (AndMax(c) \div 2) * 2 + (1 - (AndMax(c) % 2))]
                           t2 == [t1 EXCEPT ![tmp] = i]
                       IN loop(i + 2, t2[SAnm], SAnm + 1, t2)
                  ELSE loop(i + 1, tmp, SAnm, sa)
          ELSE sa
    IN loop(omp_block_start, SA[((n - m) - 1) + l], (n - m) + l, SA))

libsais_merge_unique_lms_suffixes_32s(T, SA, n, m, l, omp_block_start, omp_block_size) ==
  After(SA,
    LET RECURSIVE loop(_, _, _, _)
        loop(i, tmp, SAnm, sa) ==
          IF i < omp_block_start + omp_block_size
          THEN LET c == sa[T + i]
               IN IF c < 0
                  THEN LET t1 == [sa EXCEPT ![T + i] = AndMax(c)]
                           t2 == [t1 EXCEPT ![tmp] = i]
                       IN loop(i + 2, t2[SAnm], SAnm + 1, t2)
                  ELSE loop(i + 1, tmp, SAnm, sa)
          ELSE sa
    IN loop(omp_block_start, SA[((n - m) - 1) + l], (n - m) + l, SA))

libsais_merge_nonunique_lms_suffixes_32s(SA, n, m, l, omp_block_start, omp_block_size) ==
  After(SA,
    LET RECURSIVE loop(_, _, _, _)
        loop(i, tmp, SAnm, sa) ==
          IF i < omp_block_start + omp_block_size
          THEN IF sa[i] = 0
               THEN LET t == [sa EXCEPT ![i] = tmp]
                    IN loop(i + 1, t[SAnm], SAnm + 1, t)
               ELSE loop(i + 1, tmp, SAnm, sa)
          ELSE sa
    IN loop(omp_block_start, SA[((n - m) - 1) + l], (n - m) + l, SA))

libsais_merge_compacted_lms_suffixes_32s_omp(T, SA, n, m, f, threads) ==
  After(SA,
    LET sa1 == libsais_merge_unique_lms_suffixes_32s(T, SA, n, m, 0, 0, n)
    IN libsais_merge_nonunique_lms_suffixes_32s(sa1, n, m, f, 0, m))

libsais_reconstruct_compacted_lms_suffixes_32s_2k_omp(T, SA, n, k, m, fs, f, buckets, threads) ==
  After(SA,
    IF f > 0
    THEN LET sa1 == MemMove(SA, (n - m) - 1, (n + fs) - m, f)
             sa2 == libsais_count_and_gather_compacted_lms_suffixes_32s_2k(T, sa1, n, k, buckets).SA
             sa3 == libsais_reconstruct_lms_suffixes_omp(sa2, n, m - f, threads)
             sa4 == MemMove(sa3, ((n - m) - 1) + f, 0, m - f)
             sa5 == MemSet(sa4, 0, m, 0)
         IN libsais_merge_compacted_lms_suffixes_32s_omp(T, sa5, n, m, f, threads)
    ELSE libsais_reconstruct_lms_suffixes_omp(
           libsais_count_and_gather_lms_suffixes_32s_2k(T, SA, n, k, buckets).SA, n, m, threads))

libsais_reconstruct_compacted_lms_suffixes_32s_1k_omp(T, SA, n, m, fs, f, threads) ==
  After(SA,
    IF f > 0
    THEN LET sa1 == MemMove(SA, (n - m) - 1, (n + fs) - m, f)
             sa2 == libsais_gather_compacted_lms_suffixes_32s(T, sa1, n).SA
             sa3 == libsais_reconstruct_lms_suffixes_omp(sa2, n, m - f, threads)
             sa4 == MemMove(sa3, ((n - m) - 1) + f, 0, m - f)
             sa5 == MemSet(sa4, 0, m, 0)
         IN libsais_merge_compacted_lms_suffixes_32s_omp(T, sa5, n, m, f, threads)
    ELSE libsais_reconstruct_lms_suffixes_omp(libsais_gather_lms_suffixes_32s(T, SA, n).SA, n, m, threads))

\* ------------------------------------------ integer path: placing LMS suffixes

libsais_place_lms_suffixes_interval_32s_4k(SA, n, k, m, buckets) ==
  After(SA,
    LET bucket_end == buckets + (3 * k)
        RECURSIVE loop(_, _, _, _)
        loop(c, j, mm, sa) ==
          IF c >= 0
          THEN LET l == sa[buckets + BUCKETS_INDEX2(c, 1) + BUCKETS_INDEX2(1, 0)] - sa[buckets + BUCKETS_INDEX2(c, 1)]
               IN IF l > 0
                  THEN LET i == sa[bucket_end + c]
                           sa1 == IF j - i > 0 THEN MemSet(sa, i, j - i, 0) ELSE sa
                       IN loop(c - 1, i - l, mm - l, MemMove(sa1, i - l, mm - l, l))
                  ELSE loop(c - 1, j, mm, sa)
          ELSE MemSet(sa, 0, j, 0)
    IN loop(k - 2, n, m, SA))

libsais_place_lms_suffixes_interval_32s_2k(SA, n, k, m, buckets) ==
  After(SA,
    LET RECURSIVE loop(_, _, _, _)
        loop(c, j, mm, sa) ==
          IF c >= BUCKETS_INDEX2(0, 0)
          THEN LET l == sa[buckets + c + BUCKETS_INDEX2(1, 1)] - sa[buckets + c + BUCKETS_INDEX2(0, 1)]
               IN IF l > 0
                  THEN LET i == sa[buckets + c]
                           sa1 == IF j - i > 0 THEN MemSet(sa, i, j - i, 0) ELSE sa
                       IN loop(c - BUCKETS_INDEX2(1, 0), i - l, mm - l, MemMove(sa1, i - l, mm - l, l))
                  ELSE loop(c - BUCKETS_INDEX2(1, 0), j, mm, sa)
          ELSE MemSet(sa, 0, j, 0)
    IN loop(BUCKETS_INDEX2(k - 2, 0), n, m, SA))

libsais_place_lms_suffixes_interval_32s_1k(T, SA, k, m, buckets) ==
  After(SA,
    LET RECURSIVE loop(_, _, _, _)
        loop(i, c, l, sa) ==
          IF i >= 0
          THEN LET p == sa[i]
               IN IF sa[T + p] # c
                  THEN LET c1 == sa[T + p]
                           sa1 == MemSet(sa, sa[buckets + c1], l - sa[buckets + c1], 0)
                           l1 == sa1[buckets + c1]
                       IN loop(i - 1, c1, l1 - 1, [sa1 EXCEPT ![l1 - 1] = p])
                  ELSE loop(i - 1, c, l - 1, [sa EXCEPT ![l - 1] = p])
          ELSE MemSet(sa, 0, l, 0)
    IN loop(m - 1, k - 1, SA[buckets + (k - 1)], SA))

libsais_place_lms_suffixes_histogram_32s_6k(SA, n, k, m, buckets) ==
  After(SA,
    LET bucket_end == buckets + (5 * k)
        RECURSIVE loop(_, _, _, _)
        loop(c, j, mm, sa) ==
          IF c >= 0
          THEN LET l == sa[buckets + BUCKETS_INDEX4(c, 1)]
               IN IF l > 0
                  THEN LET i == sa[bucket_end + c]
                           sa1 == IF j - i > 0 THEN MemSet(sa, i, j - i, 0) ELSE sa
                       IN loop(c - 1, i - l, mm - l, MemMove(sa1, i - l, mm - l, l))
                  ELSE loop(c - 1, j, mm, sa)
          ELSE MemSet(sa, 0, j, 0)
    IN loop(k - 2, n, m, SA))

libsais_place_lms_suffixes_histogram_32s_4k(SA, n, k, m, buckets) ==
  After(SA,
    LET bucket_end == buckets + (3 * k)
        RECURSIVE loop(_, _, _, _)
        loop(c, j, mm, sa) ==
          IF c >= 0
          THEN LET l == sa[buckets + BUCKETS_INDEX2(c, 1)]
               IN IF l > 0
                  THEN LET i == sa[bucket_end + c]
                           sa1 == IF j - i > 0 THEN MemSet(sa, i, j - i, 0) ELSE sa
                       IN loop(c - 1, i - l, mm - l, MemMove(sa1, i - l, mm - l, l))
                  ELSE loop(c - 1, j, mm, sa)
          ELSE MemSet(sa, 0, j, 0)
    IN loop(k - 2, n, m, SA))

libsais_place_lms_suffixes_histogram_32s_2k(SA, n, k, m, buckets) ==
  After(SA,
    LET RECURSIVE loop(_, _, _, _)
        loop(c, j, mm, sa) ==
          IF c >= BUCKETS_INDEX2(0, 0)
          THEN LET l == sa[buckets + c + BUCKETS_INDEX2(0, 1)]
               IN IF l > 0
                  THEN LET i == sa[buckets + c]
                           sa1 == IF j - i > 0 THEN MemSet(sa, i, j - i, 0) ELSE sa
                       IN loop(c - BUCKETS_INDEX2(1, 0), i - l, mm - l, MemMove(sa1, i - l, mm - l, l))
                  ELSE loop(c - BUCKETS_INDEX2(1, 0), j, mm, sa)
          ELSE MemSet(sa, 0, j, 0)
    IN loop(BUCKETS_INDEX2(k - 2, 0), n, m, SA))

\* ------------------------------------------ integer path: final induction

libsais_final_sorting_scan_left_to_right_32s(T, SA, n, induction_bucket) ==
  After(SA,
    LET cn == SA[T + (n - 1)]
        sa0 == [SA EXCEPT ![SA[induction_bucket + cn]] = OrFlag(n - 1, SA[T + (n - 2)] < cn)]
        sa1 == [sa0 EXCEPT ![induction_bucket + cn] = @ + 1]
        RECURSIVE loop(_, _)
        loop(i, sa) ==
          IF i < n
          THEN LET p0 == sa[i]
                   t0 == [sa EXCEPT ![i] = XorMin(p0)]
               IN IF p0 > 0
                  THEN LET p == p0 - 1
                           c == t0[T + p]
                           t1 == [t0 EXCEPT ![t0[induction_bucket + c]] = OrFlag(p, t0[T + (p - B2I(p > 0))] < c)]
                       IN loop(i + 1, [t1 EXCEPT ![induction_bucket + c] = @ + 1])
                  ELSE loop(i + 1, t0)
          ELSE sa
    IN loop(0, sa1))

libsais_final_sorting_scan_right_to_left_32s(T, SA, n, induction_bucket) ==
  After(SA,
    LET RECURSIVE loop(_, _)
        loop(i, sa) ==
          IF i >= 0
          THEN LET p0 == sa[i]
                   t0 == [sa EXCEPT ![i] = AndMax(p0)]
               IN IF p0 > 0
                  THEN LET p == p0 - 1
                           c == t0[T + p]
                           t1 == [t0 EXCEPT ![induction_bucket + c] = @ - 1]
                       IN loop(i - 1, [t1 EXCEPT ![t1[induction_bucket + c]] = OrFlag(p, t1[T + (p - B2I(p > 0))] > c)])
                  ELSE loop(i - 1, t0)
          ELSE sa
    IN loop(n - 1, SA))

libsais_induce_final_order_32s_6k(T, SA, n, k, buckets) ==
  After(SA,
    libsais_final_sorting_scan_right_to_left_32s(T,
      libsais_final_sorting_scan_left_to_right_32s(T, SA, n, buckets + (4 * k)), n, buckets + (5 * k)))

libsais_induce_final_order_32s_4k(T, SA, n, k, buckets) ==
  After(SA,
    libsais_final_sorting_scan_right_to_left_32s(T,
      libsais_final_sorting_scan_left_to_right_32s(T, SA, n, buckets + (2 * k)), n, buckets + (3 * k)))

libsais_induce_final_order_32s_2k(T, SA, n, k, buckets) ==
  After(SA,
    libsais_final_sorting_scan_right_to_left_32s(T,
      libsais_final_sorting_scan_left_to_right_32s(T, SA, n, buckets + (1 * k)), n, buckets + (0 * k)))

libsais_induce_final_order_32s_1k(T, SA, n, k, buckets) ==
  After(SA,
    LET sa1 == libsais_count_suffixes_32s(T, SA, n, k, buckets)
        sa2 == libsais_initialize_buckets_start_32s_1k(sa1, k, buckets)
        sa3 == libsais_final_sorting_scan_left_to_right_32s(T, sa2, n, buckets)
        sa4 == libsais_count_suffixes_32s(T, sa3, n, k, buckets)
        sa5 == libsais_initialize_buckets_end_32s_1k(sa4, k, buckets)
    IN libsais_final_sorting_scan_right_to_left_32s(T, sa5, n, buckets))

\* ------------------------------------------------------------------- heap
\* A heap h records the allocator as the call sees it: next counts the
\* allocation requests made so far, fail is the set of requests (by ordinal)
\* that malloc refuses, live the blocks held, freed the blocks released in
\* order of release, base the address of SA[0] in units of int modulo the
\* largest alignment asked for, calls the log of libsais_main_32s entries,
\* recs the log of the recursive calls (what the caller passes and the reduced
\* text as it stands at the call), texts the log of libsais_main_32s returns
\* (the text at entry and at return).
\* A block is named by the ordinal of its request; NULL is 0.

NULL == 0

libsais_align_up(base, address, alignment) ==
  ((((base + address) + alignment) - 1) \div alignment) * alignment - base

libsais_alloc_aligned(h) ==
  LET id == h.next + 1
  IN IF id \in h.fail
     THEN [h |-> [h EXCEPT !.next = id], ptr |-> NULL]
     ELSE [h |-> [h EXCEPT !.next = id, !.live = @ \cup {id}], ptr |-> id]

libsais_free_aligned(h, ptr) ==
  IF ptr = NULL THEN h ELSE [h EXCEPT !.live = @ \ {ptr}, !.freed = Append(@, ptr)]

\* a / b as C computes it (truncation toward zero), b > 0
CDiv(a, b) == IF a >= 0 THEN a \div b ELSE -((-a) \div b)

\* ------------------------------------------------- integer path: the driver
\* The result is the memory, the return value and the heap.  The scratch block
\* of the 1k variant lives at h.scratch; malloc hands it out holding h.junk, and
\* free leaves h.junk behind.

\* libsais_main_32s is written as its steps, the last one first.  Each step
\* takes the call's constants c (the arguments, the variant chosen and the
\* offset of the bucket table) and what the steps before it left: the memory,
\* the heap, the number m of LMS suffixes, the scratch block (NULL outside the
\* 1k variant).

RECURSIVE libsais_main_32s(_, _, _, _, _, _, _)

\* the n cells of the memory from offset T on
Cells(SA, T, n) == [i \in 0..(n - 1) |-> SA[T + i]] @@ << >>

\* the call logged with the positions that are not LMS counted in place of m
Recursing_rest(c, SA, m, f, names, T1, n1, k1, fs1, h) ==
  libsais_main_32s(T1, SA, n1, k1, fs1, c.threads,
    [h EXCEPT !.recs = Append(@, [n |-> c.n, fs |-> c.fs, m |-> c.n - m, f |-> f, names |-> names,
                                  T1 |-> T1, n1 |-> n1, k1 |-> k1, fs1 |-> fs1,
                                  text |-> Cells(SA, T1, n1)])])

\* libsais_main_32s(T1, SA, n1, k1, fs1, threads, h) with the call logged in h:
\* the caller's n, fs, m, f and number of names, the arguments passed and the
\* text they name
Recursing(c, SA, m, f, names, T1, n1, k1, fs1, h) ==
  libsais_main_32s(T1, SA, n1, k1, fs1, c.threads,
    [h EXCEPT !.recs = Append(@, [n |-> c.n, fs |-> c.fs, m |-> m, f |-> f, names |-> names,
                                  T1 |-> T1, n1 |-> n1, k1 |-> k1, fs1 |-> fs1,
                                  text |-> Cells(SA, T1, n1)])])

\* a block malloc just handed out, or free just took back
libsais_main_32s_scratch(c, sa, ptr) ==
  IF ptr # NULL THEN MemSet(sa, c.scratch, c.k, c.junk) ELSE sa

libsais_main_32s_final(c, sa, m, h) ==
  After(sa,
    [SA |-> IF c.variant = 2
            THEN libsais_induce_final_order_32s_2k(c.T,
                   libsais_initialize_buckets_start_and_end_32s_2k(
                     libsais_place_lms_suffixes_histogram_32s_2k(
                       libsais_initialize_buckets_end_32s_2k(sa, c.k, c.buckets), c.n, c.k, m, c.buckets),
                     c.k, c.buckets), c.n, c.k, c.buckets)
            ELSE libsais_induce_final_order_32s_4k(c.T,
                   libsais_place_lms_suffixes_histogram_32s_4k(
                     libsais_initialize_buckets_start_and_end_32s_4k(sa, c.k, c.buckets), c.n, c.k, m, c.buckets),
                   c.n, c.k, c.buckets),
     ret |-> 0, h |-> h])

\* the last step of the 1k variant without its libsais_free_aligned(buffer)
libsais_main_32s_final_1k_kept(c, sa, h, buffer) ==
  After(sa,
    [SA |-> libsais_induce_final_order_32s_1k(c.T, sa, c.n, c.k, c.buckets), ret |-> 0, h |-> h])

libsais_main_32s_final_1k(c, sa, h, buffer) ==
  After(sa,
    [SA |-> libsais_induce_final_order_32s_1k(c.T, sa, c.n, c.k, c.buckets), ret |-> 0,
     h |-> libsais_free_aligned(h, buffer)])

libsais_main_32s_place_1k(c, sa, m, h, buffer) ==
  After(sa,
    libsais_main_32s_final_1k(c,
      libsais_place_lms_suffixes_interval_32s_1k(c.T,
        libsais_initialize_buckets_end_32s_1k(
          libsais_count_suffixes_32s(c.T, sa, c.n, c.k, c.buckets), c.k, c.buckets),
        c.k, m, c.buckets),
      h, buffer))

libsais_main_32s_realloc_1k(c, sa, m, a, buffer) ==
  After(sa,
    IF buffer # NULL /\ a.ptr = NULL THEN [SA |-> sa, ret |-> -2, h |-> a.h]
    ELSE libsais_main_32s_place_1k(c, libsais_main_32s_scratch(c, sa, a.ptr), m, a.h, a.ptr))

libsais_main_32s_reconstruct(c, rr, m, f, buffer) ==
  After(rr.SA,
    IF rr.ret # 0 THEN [SA |-> rr.SA, ret |-> -2, h |-> rr.h]
    ELSE IF c.variant = 1
    THEN libsais_main_32s_realloc_1k(c,
           libsais_reconstruct_compacted_lms_suffixes_32s_1k_omp(c.T, rr.SA, c.n, m, c.fs, f, c.threads), m,
           IF buffer # NULL THEN libsais_alloc_aligned(rr.h) ELSE [h |-> rr.h, ptr |-> NULL], buffer)
    ELSE libsais_main_32s_final(c,
           libsais_reconstruct_compacted_lms_suffixes_32s_2k_omp(c.T, rr.SA, c.n, c.k, m, c.fs, f, c.buckets,
                                                                 c.threads),
           m, rr.h))

libsais_main_32s_recurse(c, r, m, names, h, buffer) ==
  After(r.SA,
    libsais_main_32s_reconstruct(c,
      Recursing(c, r.SA, m, r.f, names,
                ((c.n + c.fs) - m) + r.f, m - r.f, names - r.f, ((c.fs + c.n) - (2 * m)) + r.f, h),
      m, r.f, buffer))

libsais_main_32s_names(c, r, m, h, buffer) ==
  After(r.SA,
    IF r.name < m
    THEN libsais_main_32s_recurse(c,
           libsais_compact_lms_suffixes_32s_omp(c.T, libsais_main_32s_scratch(c, r.SA, buffer), c.n, m, c.fs,
                                                c.threads),
           m, r.name, libsais_free_aligned(h, buffer), buffer)
    ELSE IF c.variant = 1 THEN libsais_main_32s_place_1k(c, r.SA, m, h, buffer)
    ELSE libsais_main_32s_final(c, libsais_count_lms_suffixes_32s_2k(c.T, r.SA, c.n, c.k, c.buckets), m, h))

libsais_main_32s_partial_6k(c, r, m, first_lms_suffix, h) ==
  After(r.SA,
    libsais_main_32s_names(c,
      libsais_renumber_and_mark_distinct_lms_suffixes_32s_4k_omp(
        libsais_induce_partial_order_32s_6k(c.T,
          libsais_initialize_buckets_for_partial_sorting_32s_6k(c.T,
            libsais_radix_sort_set_markers_32s_6k_omp(
              libsais_radix_sort_lms_suffixes_32s_6k(c.T, r.SA, c.n, m, c.buckets + (4 * c.k)),
              c.k, c.buckets + (4 * c.k), c.threads),
            c.k, c.buckets, first_lms_suffix, r.sum),
          c.n, c.k, c.buckets, first_lms_suffix, r.sum, c.threads),
        c.n, m, c.threads),
      m, h, NULL))

libsais_main_32s_radix_6k(c, sa, m, h) ==
  After(sa,
    libsais_main_32s_partial_6k(c,
      libsais_initialize_buckets_for_lms_suffixes_radix_sort_32s_6k(c.T, sa, c.k, c.buckets, sa[c.n - m]),
      m, sa[c.n - m], h))

libsais_main_32s_partial_4k(c, sa, m, h) ==
  After(sa,
    libsais_main_32s_names(c,
      libsais_renumber_and_mark_distinct_lms_suffixes_32s_4k_omp(
        libsais_induce_partial_order_32s_4k(c.T,
          libsais_place_lms_suffixes_interval_32s_4k(
            libsais_radix_sort_set_markers_32s_4k_omp(
              libsais_radix_sort_lms_suffixes_32s_2k(c.T,
                libsais_initialize_buckets_for_radix_and_partial_sorting_32s_4k(c.T, sa, c.k, c.buckets,
                                                                                sa[c.n - m]),
                c.n, m, c.buckets + 1),
              c.k, c.buckets + 1, c.threads),
            c.n, c.k, m - 1, c.buckets),
          c.n, c.k, c.buckets),
        c.n, m, c.threads),
      m, h, NULL))

libsais_main_32s_partial_2k(c, sa, m, h) ==
  After(sa,
    libsais_main_32s_names(c,
      libsais_renumber_and_mark_distinct_lms_suffixes_32s_1k(c.T,
        libsais_induce_partial_order_32s_2k(c.T,
          libsais_initialize_buckets_start_and_end_32s_2k(
            libsais_place_lms_suffixes_interval_32s_2k(
              libsais_radix_sort_lms_suffixes_32s_2k(c.T,
                libsais_initialize_buckets_for_lms_suffixes_radix_sort_32s_2k(c.T, sa, c.k, c.buckets,
                                                                              sa[c.n - m]),
                c.n, m, c.buckets + 1),
              c.n, c.k, m - 1, c.buckets),
            c.k, c.buckets),
          c.n, c.k, c.buckets),
        c.n, m),
      m, h, NULL))

libsais_main_32s_gathered(c, r, h) ==
  After(r.SA,
    IF c.variant = 6
    THEN IF r.m > 1 THEN libsais_main_32s_radix_6k(c, MemSet(r.SA, 0, c.n - r.m, 0), r.m, h)
         ELSE [SA |-> libsais_induce_final_order_32s_6k(c.T,
                        libsais_place_lms_suffixes_histogram_32s_6k(
                          libsais_initialize_buckets_start_and_end_32s_6k(
                            [r.SA EXCEPT ![0] = r.SA[c.n - 1]], c.k, c.buckets),
                          c.n, c.k, r.m, c.buckets),
                        c.n, c.k, c.buckets),
               ret |-> 0, h |-> h]
    ELSE IF r.m <= 1 THEN libsais_main_32s_final(c, [r.SA EXCEPT ![0] = r.SA[c.n - 1]], r.m, h)
    ELSE IF c.variant = 4 THEN libsais_main_32s_partial_4k(c, r.SA, r.m, h)
    ELSE libsais_main_32s_partial_2k(c, r.SA, r.m, h))

libsais_main_32s_sorted_1k(c, r, a) ==
  After(r.SA,
    IF r.m > 1
    THEN libsais_main_32s_names(c,
           libsais_renumber_and_mark_distinct_lms_suffixes_32s_1k(c.T,
             libsais_induce_partial_order_32s_1k(c.T, r.SA, c.n, c.k, c.buckets), c.n, r.m),
           r.m, a.h, a.ptr)
    ELSE libsais_main_32s_final_1k(c, r.SA, a.h, a.ptr))

libsais_main_32s_1k(c, SA, a) ==
  After(SA,
    IF c.fs < c.k /\ a.ptr = NULL THEN [SA |-> SA, ret |-> -2, h |-> a.h]
    ELSE libsais_main_32s_sorted_1k(c,
           libsais_radix_sort_lms_suffixes_32s_1k(c.T,
             libsais_initialize_buckets_end_32s_1k(
               libsais_count_suffixes_32s(c.T, MemSet(libsais_main_32s_scratch(c, SA, a.ptr), 0, c.n, 0),
                                          c.n, c.k, c.buckets),
               c.k, c.buckets),
             c.n, c.buckets),
           a))

\* the constants of a call: its arguments, the variant the free space allows
\* and the offset of the bucket table
libsais_main_32s_constants(T, n, k, fs, threads, h) ==
  LET variant == IF k > 0 /\ CDiv(fs, k) >= 6 THEN 6
                 ELSE IF k > 0 /\ CDiv(fs, k) >= 4 THEN 4
                 ELSE IF k > 0 /\ CDiv(fs, k) >= 2 THEN 2 ELSE 1
      alignment == IF variant = 1
                   THEN (IF fs - 1024 >= k THEN 1024 ELSE 16)
                   ELSE (IF CDiv(fs - 1024, k) >= variant THEN 1024 ELSE 16)
      buckets == IF variant = 1
                 THEN (IF fs - alignment >= k
                       THEN libsais_align_up(h.base, ((n + fs) - k) - alignment, alignment)
                       ELSE IF fs >= k THEN (n + fs) - k ELSE h.scratch)
                 ELSE (IF CDiv(fs - alignment, k) >= variant
                       THEN libsais_align_up(h.base, ((n + fs) - (variant * k)) - alignment, alignment)
                       ELSE (n + fs) - (variant * k))
  IN [T |-> T, n |-> n, k |-> k, fs |-> fs, threads |-> threads, variant |-> variant,
      buckets |-> buckets, scratch |-> h.scratch, junk |-> h.junk, next |-> h.next, live |-> h.live]

\* the heap with the call logged
libsais_main_32s_entered(c, h) ==
  [h EXCEPT !.calls = Append(@, [variant |-> c.variant, T |-> c.T, n |-> c.n, k |-> c.k, fs |-> c.fs])]

\* what the call returns, r, with the text at entry and at return logged, and
\* with them the heap's count of allocations at entry and at return and the
\* blocks the call leaves allocated
libsais_main_32s_returned(c, SA, r) ==
  [r EXCEPT !.h.texts = Append(@, [T |-> c.T, n |-> c.n, ret |-> r.ret, entry |-> Cells(SA, c.T, c.n),
                                   exit |-> Cells(r.SA, c.T, c.n),
                                   variant |-> c.variant, k |-> c.k, fs |-> c.fs,
                                   first |-> c.next, last |-> r.h.next, held |-> r.h.live \ c.live])]

\* the call with its constants c
libsais_main_32s_variant(c, SA, h) ==
  libsais_main_32s_returned(c, SA,
    IF c.variant = 6
    THEN libsais_main_32s_gathered(c, libsais_count_and_gather_lms_suffixes_32s_4k(c.T, SA, c.n, c.k, c.buckets),
                                   libsais_main_32s_entered(c, h))
    ELSE IF c.variant > 1
    THEN libsais_main_32s_gathered(c, libsais_count_and_gather_lms_suffixes_32s_2k(c.T, SA, c.n, c.k, c.buckets),
                                   libsais_main_32s_entered(c, h))
    ELSE libsais_main_32s_1k(c, SA, IF c.fs < c.k THEN libsais_alloc_aligned(libsais_main_32s_entered(c, h))
                                    ELSE [h |-> libsais_main_32s_entered(c, h), ptr |-> NULL]))

libsais_main_32s(T, SA, n, k, fs, threads, h0) ==
  libsais_main_32s_variant(libsais_main_32s_constants(T, n, k, fs, threads, h0), SA, h0)

\* ---------------------------------------------------- byte path: the driver
\* The per-thread state is three blocks; the pointer thread_state[0].state.cache
\* and thread_state[0].state.buckets are kept beside the pointer to the states.

NoThreadState == [ptr |-> NULL, buckets |-> NULL, cache |-> NULL]

\* the thread state whose blocks are not released when one of them is refused
libsais_alloc_thread_state_leak(h, threads) ==
  LET a1 == libsais_alloc_aligned(h)
      a2 == libsais_alloc_aligned(a1.h)
      a3 == libsais_alloc_aligned(a2.h)
  IN IF a1.ptr # NULL /\ a2.ptr # NULL /\ a3.ptr # NULL
     THEN [h |-> a3.h, thread_state |-> [ptr |-> a1.ptr, buckets |-> a2.ptr, cache |-> a3.ptr]]
     ELSE [h |-> a3.h, thread_state |-> NoThreadState]

libsais_alloc_thread_state(h, threads) ==
  LET a1 == libsais_alloc_aligned(h)
      a2 == libsais_alloc_aligned(a1.h)
      a3 == libsais_alloc_aligned(a2.h)
      h4 == libsais_free_aligned(a3.h, a3.ptr)
      h5 == libsais_free_aligned(h4, a2.ptr)
  IN IF a1.ptr # NULL /\ a2.ptr # NULL /\ a3.ptr # NULL
     THEN [h |-> a3.h, thread_state |-> [ptr |-> a1.ptr, buckets |-> a2.ptr, cache |-> a3.ptr]]
     ELSE [h |-> libsais_free_aligned(h5, a1.ptr), thread_state |-> NoThreadState]

libsais_free_thread_state(h, thread_state) ==
  IF thread_state.ptr # NULL
  THEN libsais_free_aligned(libsais_free_aligned(libsais_free_aligned(h, thread_state.cache),
                                                 thread_state.buckets), thread_state.ptr)
  ELSE h

\* libsais_main_8u is written as its steps too, the last one first; c holds
\* the arguments, the block of the bucket table and the per-thread state.

libsais_main_8u_free(c, h) ==
  libsais_free_thread_state(libsais_free_aligned(h, c.ptr), c.thread_state)

libsais_main_8u_index(c, r, h) ==
  After(r.SA,
    [SA |-> r.SA, ret |-> r.index, h |-> libsais_main_8u_free(c, h), zeros |-> r.zeros])

libsais_main_8u_final(c, sa, buckets, h) ==
  After(sa,
    libsais_main_8u_index(c, libsais_induce_final_order_8u_omp(c.T, sa, c.n, c.bwt, buckets, c.threads), h))

libsais_main_8u_reconstruct(c, rr, m, buckets) ==
  After(rr.SA,
    IF rr.ret # 0 THEN [SA |-> rr.SA, ret |-> -2, h |-> libsais_main_8u_free(c, rr.h), zeros |-> 0]
    ELSE libsais_main_8u_final(c,
           libsais_place_lms_suffixes_interval_8u(
             libsais_reconstruct_lms_suffixes_omp(
               libsais_gather_lms_suffixes_8u_omp(c.T, rr.SA, c.n, c.threads), c.n, m, c.threads),
             c.n, m, buckets),
           buckets, rr.h))

\* the core going on to the final induction without sorting the reduced text
libsais_main_8u_names_distinct(c, r, m, buckets, h) ==
  After(r.SA,
    libsais_main_8u_final(c, libsais_place_lms_suffixes_interval_8u(r.SA, c.n, m, buckets), buckets, h))

libsais_main_8u_names(c, r, m, buckets, h) ==
  After(r.SA,
    IF r.name < m
    THEN libsais_main_8u_reconstruct(c,
           Recursing(c, r.SA, m, 0, r.name, (c.n + c.fs) - m, m, r.name, (c.fs + c.n) - (2 * m), h),
           m, buckets)
    ELSE libsais_main_8u_final(c, libsais_place_lms_suffixes_interval_8u(r.SA, c.n, m, buckets), buckets, h))

libsais_main_8u_partial(c, r, m, h) ==
  After(r.SA,
    libsais_main_8u_names(c, libsais_renumber_and_gather_lms_suffixes_8u_omp(r.SA, c.n, m, c.fs, c.threads),
                          m, r.buckets, h))

libsais_main_8u_radix(c, r, m, first_lms_suffix, left_suffixes_count, h) ==
  After(r.SA,
    libsais_main_8u_partial(c,
      libsais_induce_partial_order_8u_omp(c.T, r.SA, c.n,
        libsais_initialize_buckets_for_partial_sorting_8u(c.T, r.buckets, first_lms_suffix, left_suffixes_count),
        first_lms_suffix, left_suffixes_count, c.threads),
      m, h))

libsais_main_8u_counted(c, r, sa, m, h) ==
  After(sa,
    libsais_main_8u_radix(c, libsais_radix_sort_lms_suffixes_8u_omp(c.T, sa, c.n, m, r.buckets, c.threads),
                          m, sa[c.n - m], r.sum, h))

libsais_main_8u_started(c, sa, buckets, m, h) ==
  After(sa,
    IF m > 0
    THEN libsais_main_8u_counted(c,
           libsais_initialize_buckets_for_lms_suffixes_radix_sort_8u(c.T, buckets, sa[c.n - m]), sa, m, h)
    ELSE libsais_main_8u_final(c, MemSet(sa, 0, c.n, 0), buckets, h))

libsais_main_8u_gathered(c, r, h) ==
  After(r.SA,
    libsais_main_8u_started(c, r.SA, libsais_initialize_buckets_start_and_end_8u(r.buckets), r.m, h))

\* the core going on with a bucket table whether or not it has the thread
\* state that more than one thread needs
libsais_main_8u_allocated_buckets(c0, SA, a, thread_state) ==
  After(SA,
    LET c == [c0 EXCEPT !.ptr = a.ptr, !.thread_state = thread_state]
    IN IF a.ptr # NULL
       THEN libsais_main_8u_gathered(c,
              libsais_count_and_gather_lms_suffixes_8u_omp(c.T, SA, c.n,
                [i \in 0..((8 * ALPHABET_SIZE) - 1) |-> a.h.junk], c.threads),
              a.h)
       ELSE [SA |-> SA, ret |-> -2, h |-> libsais_main_8u_free(c, a.h), zeros |-> 0])

libsais_main_8u_allocated(c0, SA, a, thread_state) ==
  After(SA,
    LET c == [c0 EXCEPT !.ptr = a.ptr, !.thread_state = thread_state]
    IN IF a.ptr # NULL /\ (thread_state.ptr # NULL \/ c.threads = 1)
       THEN libsais_main_8u_gathered(c,
              libsais_count_and_gather_lms_suffixes_8u_omp(c.T, SA, c.n,
                [i \in 0..((8 * ALPHABET_SIZE) - 1) |-> a.h.junk], c.threads),
              a.h)
       ELSE [SA |-> SA, ret |-> -2, h |-> libsais_main_8u_free(c, a.h), zeros |-> 0])

libsais_main_8u_state(c, SA, ts) ==
  libsais_main_8u_allocated(c, SA, libsais_alloc_aligned(ts.h), ts.thread_state)

libsais_main_8u(T, SA, n, bwt, fs, threads, h0) ==
  libsais_main_8u_state(
    [T |-> T, n |-> n, bwt |-> bwt, fs |-> fs, threads |-> threads, ptr |-> NULL,
     thread_state |-> NoThreadState],
    SA,
    IF threads > 1 THEN libsais_alloc_thread_state(h0, threads)
    ELSE [h |-> h0, thread_state |-> NoThreadState])

\* U and A are the buffers with the offset of the first cell copied
\* the copy with only its unrolled loop: the cells past the last full group
\* of eight are not copied
libsais_bwt_copy_8u_unrolled(U, Uoff, A, Aoff, n) ==
  After(U,
    [i \in DOMAIN U |-> IF i >= Uoff /\ i < Uoff + ((n \div 8) * 8)
                        THEN A[Aoff + (i - Uoff)] % ALPHABET_SIZE ELSE U[i]])

libsais_bwt_copy_8u(U, Uoff, A, Aoff, n) ==
  After(U,
    [i \in DOMAIN U |-> IF i >= Uoff /\ i < Uoff + n THEN A[Aoff + (i - Uoff)] % ALPHABET_SIZE ELSE U[i]])

\* U after libsais_bwt has stored the transform of the text held in T: the
\* last symbol, then the cells of A before and after the cell of suffix 0
libsais_bwt_store(T, U, A, index, n) ==
  After(U,
    libsais_bwt_copy_8u(libsais_bwt_copy_8u([U EXCEPT ![0] = T[n - 1]], 1, A, 0, index),
                        1 + index, A, 1 + index, (n - index) - 1))

\* ------------------------------------------------------------ state machine
\* One call of one entry point.  fn names the entry point and arg holds the
\* arguments as passed: a pointer argument is NULL or Valid (it points to the
\* buffer of the same name).  T, SA and U are the caller's buffers, SA with the
\* fs free cells behind its n cells (and the scratch area of the heap behind
\* those); heap is the allocator; ret is the value returned; zeros counts the
\* cells the final right-to-left BWT scan met holding 0.

VARIABLES pc, fn, arg, T, SA, U, heap, ret, zeros

vars == <<pc, fn, arg, T, SA, U, heap, ret, zeros>>

Valid == NULL + 1
\* the address of a buffer that does not overlap the text
Apart == Valid + 1

\* longest text enumerated in full, and the number of symbols it draws on
MaxLen == 5
MaxSym == 3
\* most threads asked for, and what omp_get_max_threads() may answer
MaxThreads == 2
\* the allocation requests of a call that may be refused
MaxFail == 6

Text(s) == [i \in 0..(Len(s) - 1) |-> s[i + 1]]

banana == Text(<<1, 0, 2, 0, 2, 0>>)
abracadabra == Text(<<0, 1, 4, 0, 2, 0, 3, 0, 1, 4, 0>>)
bacabab == Text(<<1, 0, 2, 0, 1, 0, 1>>)
babaababaababaabab == Text(<<1, 0, 1, 0, 0, 1, 0, 1, 0, 0, 1, 0, 1, 0, 0, 1, 0, 1>>)
bacabacabacabac == Text(<<1, 0, 2, 0, 1, 0, 2, 0, 1, 0, 2, 0, 1, 0, 2>>)
mississippi == Text(<<1, 0, 3, 3, 0, 3, 3, 0, 2, 2, 0>>)
cbcacbcacbcacbcabac == Text(<<2, 1, 2, 0, 2, 1, 2, 0, 2, 1, 2, 0, 2, 1, 2, 0, 1, 0, 2>>)

Samples ==
  {banana, abracadabra, mississippi, bacabab, babaababaababaabab, bacabacabacabac,
   cbcacbcacbcacbcabac}

AllTexts == UNION {[0..(l - 1) -> 0..(MaxSym - 1)] : l \in 0..MaxLen}

TextLen(t) == Cardinality(DOMAIN t)

\* free space: none, enough for the 2k, 4k and 6k variants of the first
\* recursion level, and enough for a 16-aligned bucket table
FsValues == {0, 1, 3, 5, 21}

\* what a buffer nobody wrote holds: a value with the sign bit, and one with
\* the marker bit
Junk == {-7, SUFFIX_GROUP_MARKER + 3}

Bases == {0, 7}

FailSets == {{}} \cup {{i} : i \in 1..MaxFail}

Heap0(n, fs, fail, base, junk) ==
  [next |-> 0, fail |-> fail, live |-> {}, freed |-> <<>>, base |-> base,
   scratch |-> n + fs, junk |-> junk, calls |-> <<>>, recs |-> <<>>, texts |-> <<>>]

\* the state at a call of f: arg holds the arguments and, as text, the text
\* behind T at entry, which a call given U = T overwrites
Call(f, t, tp, sap, up, n, fs, threads, fail, base, junk) ==
  LET len == TextLen(t)
      room == IF fs > 0 THEN fs ELSE 0
  IN /\ pc = "call"
     /\ fn = f
     /\ arg = [T |-> tp, SA |-> sap, U |-> up, n |-> n, fs |-> fs, threads |-> threads, text |-> t]
     /\ T = t
     /\ SA = [i \in 0..(((len + room) + (len \div 2)) - 1) |-> junk]
     /\ U = IF up = tp /\ tp # NULL THEN t ELSE [i \in 0..(len - 1) |-> junk % ALPHABET_SIZE]
     /\ heap = Heap0(len, room, fail, base, junk)
     /\ ret = 0
     /\ zeros = 0

\* every short text, sorted and transformed, with every amount of free space
InitSort ==
  \E f \in {"libsais", "libsais_bwt"}, t \in AllTexts \cup Samples, fs \in FsValues, junk \in Junk :
    \E base \in (IF fs >= 16 THEN Bases ELSE {0}) :
      Call(f, t, Valid, Valid, Apart, TextLen(t), fs, 1, {}, base, junk)

\* the sample texts and the shortest texts through every entry point, with an
\* allocation refused
InitHeap ==
  \E f \in {"libsais", "libsais_bwt", "libsais_omp", "libsais_bwt_omp"},
     t \in Samples \cup {x \in AllTexts : TextLen(x) <= 2}, fs \in {0, 1, 5},
     threads \in 0..MaxThreads, fail \in FailSets :
    /\ f \in {"libsais", "libsais_bwt"} => threads = 1
    /\ Call(f, t, Valid, Valid, Apart, TextLen(t), fs, threads, fail, 0, -7)

\* calls with an argument the entry points reject
InitArgs ==
  \E f \in {"libsais", "libsais_bwt", "libsais_omp", "libsais_bwt_omp"},
     t \in {x \in AllTexts : TextLen(x) <= 2} \cup {banana},
     tp \in {NULL, Valid}, sap \in {NULL, Valid}, up \in {NULL, Apart},
     n \in {-1, 0}, fs \in {-1, 0}, threads \in {-1, 1} :
    /\ f \in {"libsais", "libsais_bwt"} => threads = 1
    /\ f \in {"libsais", "libsais_omp"} => up = Apart
    /\ Call(f, t, tp, sap, up, IF n < 0 THEN n ELSE TextLen(t), fs, threads, {}, 0, -7)

\* the transform of every short text, written over the text itself
InitAlias ==
  \E f \in {"libsais_bwt", "libsais_bwt_omp"}, t \in AllTexts \cup Samples, fs \in {0, 5} :
    Call(f, t, Valid, Valid, Valid, TextLen(t), fs, 1, {}, 0, -7)

\* a text whose reduced text (19 symbols, one of its LMS suffixes unique) is
\* reduced once more, to a text of 8 symbols over 5 names with room for 4
\* behind it: the second call of libsais_main_32s needs a scratch block
twolevels ==
  Text(<<7, 0, 7, 0, 4, 0, 5, 0, 3, 0, 5, 0, 3, 0, 4, 0, 1, 0, 7, 0,
         4, 0, 5, 0, 3, 0, 5, 0, 3, 0, 4, 0, 1, 0, 3, 0, 1, 0, 5, 0>>)

\* that text through libsais and libsais_bwt, with an allocation refused
InitNested ==
  \E f \in {"libsais", "libsais_bwt"}, fail \in FailSets :
    Call(f, twolevels, Valid, Valid, Apart, TextLen(twolevels), 0, 1, fail, 0, -7)

Init == InitSort \/ InitHeap \/ InitArgs \/ InitAlias \/ InitNested

Return(r) ==
  /\ pc' = "done"
  /\ ret' = r
  /\ UNCHANGED <<fn, arg>>

\* what libsais does with the value libsais_main_8u returned
SaOutput(r) ==
  /\ SA' = r.SA
  /\ heap' = r.h
  /\ zeros' = r.zeros
  /\ Return(r.ret)
  /\ UNCHANGED <<T, U>>

libsais ==
  /\ pc = "call"
  /\ fn = "libsais"
  /\ IF arg.T = NULL \/ arg.SA = NULL \/ arg.n < 0 \/ arg.fs < 0
     THEN Return(-1) /\ UNCHANGED <<T, SA, U, heap, zeros>>
     ELSE IF arg.n < 2
     THEN /\ SA' = IF arg.n = 1 THEN [SA EXCEPT ![0] = 0] ELSE SA
          /\ Return(0)
          /\ UNCHANGED <<T, U, heap, zeros>>
     ELSE SaOutput(libsais_main_8u(T, SA, arg.n, FALSE, arg.fs, 1, heap))

\* the transform stored with its first symbol written last, read from T after
\* the copies
BwtOutput_late(r, n) ==
  /\ SA' = r.SA
  /\ heap' = r.h
  /\ zeros' = r.zeros
  /\ IF r.ret >= 0
     THEN LET u2 == libsais_bwt_copy_8u(libsais_bwt_copy_8u(U, 1, r.SA, 0, r.ret),
                                        1 + r.ret, r.SA, 1 + r.ret, (n - r.ret) - 1)
              u3 == [u2 EXCEPT ![0] = (IF arg.U = arg.T THEN u2 ELSE T)[n - 1]]
          IN /\ U' = u3
             /\ T' = IF arg.U = arg.T THEN u3 ELSE T
             /\ Return(r.ret + 1)
     ELSE U' = U /\ T' = T /\ Return(r.ret)

\* what libsais_bwt does with the index libsais_main_8u returned; when U is
\* the buffer of T, what is written to U is written to T
BwtOutput(r, n) ==
  /\ SA' = r.SA
  /\ heap' = r.h
  /\ zeros' = r.zeros
  /\ IF r.ret >= 0
     THEN /\ U' = libsais_bwt_store(T, U, r.SA, r.ret, n)
          /\ T' = IF arg.U = arg.T THEN libsais_bwt_store(T, U, r.SA, r.ret, n) ELSE T
          /\ Return(r.ret + 1)
     ELSE U' = U /\ T' = T /\ Return(r.ret)

\* libsais_bwt answering 0 for the texts it does not sort
libsais_bwt_zero ==
  /\ pc = "call"
  /\ fn = "libsais_bwt"
  /\ IF arg.T = NULL \/ arg.U = NULL \/ arg.SA = NULL \/ arg.n < 0 \/ arg.fs < 0
     THEN Return(-1) /\ UNCHANGED <<T, SA, U, heap, zeros>>
     ELSE IF arg.n <= 1
     THEN /\ U' = IF arg.n = 1 THEN [U EXCEPT ![0] = T[0]] ELSE U
          /\ Return(0)
          /\ UNCHANGED <<T, SA, heap, zeros>>
     ELSE BwtOutput(libsais_main_8u(T, SA, arg.n, TRUE, arg.fs, 1, heap), arg.n)

libsais_bwt ==
  /\ pc = "call"
  /\ fn = "libsais_bwt"
  /\ IF arg.T = NULL \/ arg.U = NULL \/ arg.SA = NULL \/ arg.n < 0 \/ arg.fs < 0
     THEN Return(-1) /\ UNCHANGED <<T, SA, U, heap, zeros>>
     ELSE IF arg.n <= 1
     THEN /\ U' = IF arg.n = 1 THEN [U EXCEPT ![0] = T[0]] ELSE U
          /\ Return(arg.n)
          /\ UNCHANGED <<T, SA, heap, zeros>>
     ELSE BwtOutput(libsais_main_8u(T, SA, arg.n, TRUE, arg.fs, 1, heap), arg.n)

\* libsais_omp accepting a negative thread count
libsais_omp_any_threads ==
  /\ pc = "call"
  /\ fn = "libsais_omp"
  /\ IF arg.T = NULL \/ arg.SA = NULL \/ arg.n < 0 \/ arg.fs < 0
     THEN Return(-1) /\ UNCHANGED <<T, SA, U, heap, zeros>>
     ELSE IF arg.n < 2
     THEN /\ SA' = IF arg.n = 1 THEN [SA EXCEPT ![0] = 0] ELSE SA
          /\ Return(0)
          /\ UNCHANGED <<T, U, heap, zeros>>
     ELSE \E omp_get_max_threads \in 1..MaxThreads :
            LET threads == IF arg.threads > 0 THEN arg.threads ELSE omp_get_max_threads
            IN SaOutput(libsais_main_8u(T, SA, arg.n, FALSE, arg.fs, threads, heap))

libsais_omp ==
  /\ pc = "call"
  /\ fn = "libsais_omp"
  /\ IF arg.T = NULL \/ arg.SA = NULL \/ arg.n < 0 \/ arg.threads < 0 \/ arg.fs < 0
     THEN Return(-1) /\ UNCHANGED <<T, SA, U, heap, zeros>>
     ELSE IF arg.n < 2
     THEN /\ SA' = IF arg.n = 1 THEN [SA EXCEPT ![0] = 0] ELSE SA
          /\ Return(0)
          /\ UNCHANGED <<T, U, heap, zeros>>
     ELSE \E omp_get_max_threads \in 1..MaxThreads :
            LET threads == IF arg.threads > 0 THEN arg.threads ELSE omp_get_max_threads
            IN SaOutput(libsais_main_8u(T, SA, arg.n, FALSE, arg.fs, threads, heap))

libsais_bwt_omp ==
  /\ pc = "call"
  /\ fn = "libsais_bwt_omp"
  /\ IF arg.T = NULL \/ arg.U = NULL \/ arg.SA = NULL \/ arg.n < 0 \/ arg.threads < 0 \/ arg.fs < 0
     THEN Return(-1) /\ UNCHANGED <<T, SA, U, heap, zeros>>
     ELSE IF arg.n <= 1
     THEN /\ U' = IF arg.n = 1 THEN [U EXCEPT ![0] = T[0]] ELSE U
          /\ Return(arg.n)
          /\ UNCHANGED <<T, SA, heap, zeros>>
     ELSE \E omp_get_max_threads \in 1..MaxThreads :
            LET threads == IF arg.threads > 0 THEN arg.threads ELSE omp_get_max_threads
            IN BwtOutput(libsais_main_8u(T, SA, arg.n, TRUE, arg.fs, threads, heap), arg.n)

Next == libsais \/ libsais_bwt \/ libsais_omp \/ libsais_bwt_omp

Spec == Init /\ [][Next]_vars

\* ---------------------------------------------------------------------------
\* Properties
\* ---------------------------------------------------------------------------

Returned == pc = "done"
SaCall == fn \in {"libsais", "libsais_omp"}
BwtCall == fn \in {"libsais_bwt", "libsais_bwt_omp"}
OmpCall == fn \in {"libsais_omp", "libsais_bwt_omp"}

\* the suffix of t at a is lexicographically smaller than the suffix at b; a
\* proper prefix is the smaller one
RECURSIVE SuffixLess(_, _, _, _)
SuffixLess(t, n, a, b) ==
  IF b >= n THEN FALSE
  ELSE IF a >= n THEN TRUE
  ELSE IF t[a] # t[b] THEN t[a] < t[b]
  ELSE SuffixLess(t, n, a + 1, b + 1)

\* the number of suffixes of t smaller than the whole text
Rank0(t, n) == Cardinality({j \in 1..(n - 1) : SuffixLess(t, n, j, 0)})

\* C1: when libsais or libsais_omp returns 0 for a text of length n >= 2, the
\* suffixes named by SA[0..n) are in strictly increasing lexicographic order:
\* for all i < j the suffix at SA[i] is smaller than the suffix at SA[j].
C1_SuffixesSorted ==
  (Returned /\ SaCall /\ ret = 0 /\ arg.n >= 2) =>
    \A i \in 0..(arg.n - 1) : \A j \in (i + 1)..(arg.n - 1) :
      /\ SA[i] \in 0..(arg.n - 1)
      /\ SA[j] \in 0..(arg.n - 1)
      /\ SuffixLess(T, arg.n, SA[i], SA[j])

\* a call on banana with free space that went through a recursion
C1_Witness ==
  /\ Returned /\ fn = "libsais" /\ ret = 0
  /\ T = banana /\ arg.fs = 5 /\ Len(heap.calls) >= 1
  /\ [i \in 0..5 |-> SA[i]] = Text(<<5, 3, 1, 0, 4, 2>>)

\* C2: when libsais or libsais_omp returns 0 for a text of length n, SA[0..n)
\* holds every index of [0, n) exactly once, and no cell is negative or
\* carries a marker bit.
C2_Permutation ==
  (Returned /\ SaCall /\ ret = 0) =>
    /\ \A i \in 0..(arg.n - 1) : SA[i] >= 0 /\ SA[i] < arg.n
    /\ \A i \in 0..(arg.n - 1) : \A j \in 0..(arg.n - 1) : SA[i] = SA[j] => i = j

\* abracadabra sorted by the entry point with a thread count
C2_Witness ==
  /\ Returned /\ fn = "libsais_omp" /\ ret = 0
  /\ T = abracadabra /\ SA[0] = 10 /\ SA[10] = 2

\* C3: when libsais_bwt or libsais_bwt_omp succeeds on a text of length
\* n >= 2, the final right-to-left scan met exactly one cell holding 0, and
\* the value returned is in [1, n] and is one more than the position suffix 0
\* has in the sorted order.
C3_PrimaryIndex ==
  (Returned /\ BwtCall /\ ret >= 0 /\ arg.n >= 2) =>
    /\ zeros = 1
    /\ ret \in 1..arg.n
    /\ ret = Rank0(arg.text, arg.n) + 1

\* a transform whose primary index is neither the first nor the last position
C3_Witness ==
  /\ Returned /\ fn = "libsais_bwt" /\ ret = 3 /\ zeros = 1
  /\ T = abracadabra /\ Rank0(T, arg.n) = 2

\* C4: libsais_bwt on banana returns 4 and leaves U = annbaa; on abracadabra
\* it returns 3 and leaves U = ardrcaaaabb.
C4_Examples ==
  (Returned /\ fn = "libsais_bwt" /\ arg.n = TextLen(arg.text) /\ ret >= 0) =>
    /\ arg.text = banana => ret = 4 /\ U = Text(<<0, 2, 2, 1, 0, 0>>)
    /\ arg.text = abracadabra => ret = 3 /\ U = Text(<<0, 4, 3, 4, 2, 0, 0, 0, 0, 1, 1>>)

\* C4 as stated: libsais_bwt on banana returns 4 and leaves U = nnbaaa; on
\* abracadabra it returns 3 and leaves U = rdarcaaaabb.
C4_AsStated ==
  (Returned /\ fn = "libsais_bwt" /\ arg.n = TextLen(arg.text) /\ ret >= 0) =>
    /\ arg.text = banana => ret = 4 /\ U = Text(<<2, 2, 1, 0, 0, 0>>)
    /\ arg.text = abracadabra => ret = 3 /\ U = Text(<<4, 3, 0, 4, 2, 0, 0, 0, 0, 1, 1>>)

\* the transform of banana
C4_Witness ==
  /\ Returned /\ fn = "libsais_bwt" /\ T = banana /\ arg.fs = 0
  /\ ret = 4 /\ U = Text(<<0, 2, 2, 1, 0, 0>>)

\* the suffix array the core builds for the text of the call when it is given
\* no free space
NoFreeSpace ==
  libsais_main_8u(T, [i \in 0..((arg.n + (arg.n \div 2)) - 1) |-> heap.junk], arg.n,
                  FALSE, 0, 1, Heap0(arg.n, 0, {}, 0, heap.junk))

\* C5: when libsais or libsais_omp returns 0, SA[0..n) is the same whatever
\* free space fs >= 0 the caller gave, whichever bucket layout the recursion
\* levels chose: it is the array the call with fs = 0 builds.
C5_FreeSpaceIndependent ==
  (Returned /\ SaCall /\ ret = 0 /\ arg.n >= 2 /\ arg.fs > 0) =>
    /\ NoFreeSpace.ret = 0
    /\ \A i \in 0..(arg.n - 1) : SA[i] = NoFreeSpace.SA[i]

\* babab with three cells of free space: its recursion level runs the 4k
\* layout, which the call without free space cannot
C5_Witness ==
  /\ Returned /\ fn = "libsais" /\ ret = 0
  /\ T = Text(<<1, 0, 1, 0, 1>>) /\ arg.fs = 3
  /\ Len(heap.calls) = 1 /\ heap.calls[1].variant = 4
  /\ Len(NoFreeSpace.h.calls) = 1 /\ NoFreeSpace.h.calls[1].variant = 1

\* the call has an argument the entry points reject
BadArgs ==
  \/ arg.T = NULL
  \/ arg.SA = NULL
  \/ BwtCall /\ arg.U = NULL
  \/ arg.n < 0
  \/ arg.fs < 0
  \/ OmpCall /\ arg.threads < 0

\* C7: a call with a null T, SA or U, a negative n, a negative fs or (for the
\* _omp entry points) a negative thread count returns -1, leaves every cell
\* of T, SA and U as it was, and allocates nothing.
C7_Rejected ==
  [][(pc = "call" /\ BadArgs) =>
       (ret' = -1 /\ T' = T /\ SA' = SA /\ U' = U /\ heap' = heap)]_vars

\* a transform refused for its negative thread count alone
C7_Witness ==
  /\ Returned /\ fn = "libsais_bwt_omp" /\ ret = -1
  /\ arg.threads = -1 /\ arg.T # NULL /\ arg.SA # NULL /\ arg.U # NULL
  /\ arg.n = 6 /\ arg.fs = 0
  /\ heap.next = 0 /\ \A i \in DOMAIN SA : SA[i] = heap.junk

\* an allocation the call asked for was refused
Refused == \E id \in heap.fail : id <= heap.next

\* C8: a call during which an allocation was refused (the bucket table, the
\* thread state, or the scratch table of a 1k level, before or after its
\* recursive call) returns -2, never 0 and never a primary index.
C8_AllocationFailure ==
  (Returned /\ Refused) => ret = -2

\* the scratch table of a 1k level refused when it is allocated again after
\* the level's own recursive call
C8_Witness ==
  /\ Returned /\ fn = "libsais" /\ ret = -2
  /\ T = bacabacabacabac /\ heap.fail = {3} /\ heap.next = 3
  /\ Len(heap.calls) = 2 /\ heap.calls[1].variant = 1

\* C9: when a call returns, with 0, a primary index, -1 or -2, every block
\* it allocated has been freed, and freed once.
C9_HeapBalanced ==
  Returned =>
    /\ heap.live = {}
    /\ \A i \in 1..Len(heap.freed) : \A j \in 1..Len(heap.freed) :
         heap.freed[i] = heap.freed[j] => i = j
    /\ {heap.freed[i] : i \in 1..Len(heap.freed)} = (1..heap.next) \ heap.fail

\* a successful call with two threads whose recursion level allocated and
\* freed a scratch table
C9_Witness ==
  /\ Returned /\ fn = "libsais_omp" /\ ret = 0 /\ arg.threads = 2
  /\ T = bacabab /\ heap.fail = {} /\ heap.next = 5 /\ Len(heap.freed) = 5

\* C10: with valid arguments and n <= 1 no sorting is done: libsais and
\* libsais_omp return 0, writing nothing for n = 0 and only SA[0] = 0 for
\* n = 1; libsais_bwt and libsais_bwt_omp return n, writing nothing for n = 0
\* and only U[0] = T[0] for n = 1.
C10_Trivial ==
  [][(pc = "call" /\ ~BadArgs /\ arg.n <= 1) =>
       /\ T' = T /\ heap' = heap
       /\ SaCall => (/\ ret' = 0
                     /\ U' = U
                     /\ SA' = IF arg.n = 1 THEN [SA EXCEPT ![0] = 0] ELSE SA)
       /\ BwtCall => (/\ ret' = arg.n
                      /\ SA' = SA
                      /\ U' = IF arg.n = 1 THEN [U EXCEPT ![0] = T[0]] ELSE U)]_vars

\* the transform of a text of one symbol
C10_Witness ==
  /\ Returned /\ fn = "libsais_bwt" /\ arg.n = 1 /\ ret = 1
  /\ T[0] = 2 /\ U[0] = 2 /\ SA[0] = heap.junk /\ heap.next = 0

\* C11: for a text of n >= 2 equal symbols, libsais and libsais_omp leave
\* SA = (n-1, n-2, ..., 0), and libsais_bwt and libsais_bwt_omp leave U equal
\* to T and return n.
C11_EqualSymbols ==
  (Returned /\ ret >= 0 /\ arg.n >= 2 /\ \A i \in 0..(arg.n - 1) : T[i] = T[0]) =>
    /\ SaCall => \A i \in 0..(arg.n - 1) : SA[i] = (arg.n - 1) - i
    /\ BwtCall => (ret = arg.n /\ U = T)

\* the transform of a run of four equal symbols that are not the smallest one
C11_Witness ==
  /\ Returned /\ fn = "libsais_bwt" /\ arg.n = 4 /\ ret = 4
  /\ T = Text(<<1, 1, 1, 1>>) /\ U = T

\* the text of the call rises strictly from each symbol to the next
Increasing == \A i \in 1..(arg.n - 1) : T[i - 1] < T[i]

\* C12: for a strictly increasing text of length n >= 2, libsais and
\* libsais_omp leave SA = (0, 1, ..., n-1): the suffixes are already in order.
C12_Increasing ==
  (Returned /\ SaCall /\ ret = 0 /\ arg.n >= 2 /\ Increasing) =>
    \A i \in 0..(arg.n - 1) : SA[i] = i

\* C12 as stated: for a strictly increasing text of length n >= 2 the
\* suffix-array call leaves SA = (n-1, 0, 1, ..., n-2).
C12_AsStated ==
  (Returned /\ SaCall /\ ret = 0 /\ arg.n >= 2 /\ Increasing) =>
    /\ SA[0] = arg.n - 1
    /\ \A i \in 1..(arg.n - 1) : SA[i] = i - 1

\* the three symbols in rising order
C12_Witness ==
  /\ Returned /\ fn = "libsais" /\ ret = 0
  /\ T = Text(<<0, 1, 2>>) /\ [i \in 0..2 |-> SA[i]] = Text(<<0, 1, 2>>)

\* the first n cells of SA
SAOut == [i \in 0..(arg.n - 1) |-> SA[i]]

\* C13: libsais returns 0 with SA = (5,3,1,0,4,2) for banana, with
\* SA = (10,7,4,1,0,9,8,6,3,5,2) for mississippi and with
\* SA = (10,7,0,3,5,8,1,4,6,9,2) for abracadabra.
C13_Examples ==
  (Returned /\ fn = "libsais" /\ arg.n = TextLen(T) /\ heap.fail = {} /\ ~BadArgs) =>
    /\ T = banana => (ret = 0 /\ SAOut = Text(<<5, 3, 1, 0, 4, 2>>))
    /\ T = mississippi => (ret = 0 /\ SAOut = Text(<<10, 7, 4, 1, 0, 9, 8, 6, 3, 5, 2>>))
    /\ T = abracadabra => (ret = 0 /\ SAOut = Text(<<10, 7, 0, 3, 5, 8, 1, 4, 6, 9, 2>>))

\* mississippi sorted in an array without free space
C13_Witness ==
  /\ Returned /\ fn = "libsais" /\ ret = 0 /\ arg.fs = 0
  /\ T = mississippi /\ SA[0] = 10 /\ SA[4] = 0 /\ SA[10] = 2

\* what libsais_bwt returns and leaves in a buffer U apart from T, for the
\* text and the arguments of the call
BwtApart ==
  IF arg.n <= 1
  THEN [ret |-> arg.n, U |-> [i \in 0..(arg.n - 1) |-> T[i]]]
  ELSE [ret |-> libsais_main_8u(T, SA, arg.n, TRUE, arg.fs, 1, heap).ret + 1,
        U |-> libsais_bwt_store(T, [i \in 0..(arg.n - 1) |-> heap.junk % ALPHABET_SIZE],
                                libsais_main_8u(T, SA, arg.n, TRUE, arg.fs, 1, heap).SA,
                                libsais_main_8u(T, SA, arg.n, TRUE, arg.fs, 1, heap).ret, arg.n)]

\* C14: libsais_bwt and libsais_bwt_omp called with U the buffer of T return
\* the value and leave in U the contents that the call with a U apart from T
\* returns and leaves.
C14_Aliased ==
  [][(pc = "call" /\ BwtCall /\ ~BadArgs /\ arg.U = arg.T) =>
       (ret' = BwtApart.ret /\ U' = BwtApart.U /\ T' = U')]_vars

\* banana overwritten by its transform
C14_Witness ==
  /\ Returned /\ fn = "libsais_bwt" /\ arg.U = arg.T /\ arg.n = 6 /\ ret = 4
  /\ U = Text(<<0, 2, 2, 1, 0, 0>>) /\ T = U

\* ------------------------------------------------------------------- C15
\* C15: whenever libsais_main_32s returns 0, every symbol T[i], 0 <= i < n, of
\* its text holds at return the value it held at entry
C15_TextIntact ==
  Returned => \A j \in 1..Len(heap.texts) :
                heap.texts[j].ret = 0 => heap.texts[j].exit = heap.texts[j].entry

\* a call that compacted its reduced text (f = 1 unique LMS suffix, whose head
\* symbol the renumbering marked) and returned 0
C15_Witness ==
  /\ Returned /\ fn = "libsais" /\ ret = 0 /\ arg.fs = 0 /\ T = cbcacbcacbcacbcabac
  /\ Len(heap.recs) = 2 /\ heap.recs[2].f = 1
  /\ Len(heap.texts) = 2 /\ heap.texts[2].ret = 0 /\ heap.texts[2].n = heap.recs[1].n1
  /\ heap.texts[2].exit = heap.recs[1].text

\* ------------------------------------------------------------------- C19
\* floor(log2 n), 0 for n < 2
RECURSIVE Log2(_)
Log2(n) == IF n < 2 THEN 0 ELSE 1 + Log2(n \div 2)

C20_RecursionArguments ==
  Returned => \A j \in 1..Len(heap.recs) :
    LET e == heap.recs[j]
    IN /\ e.T1 = ((e.n + e.fs) - e.m) + e.f /\ e.n1 = e.m - e.f
       /\ e.k1 = e.names - e.f /\ e.fs1 = ((e.fs + e.n) - (2 * e.m)) + e.f
       /\ e.n1 >= 2 /\ e.k1 >= 1 /\ e.fs1 >= 0
       /\ \A i \in 0..(e.n1 - 1) : e.text[i] >= 0 /\ e.text[i] < e.k1
       /\ e.T1 >= 0 /\ e.T1 + e.n1 <= e.n + e.fs
       /\ e.n1 + e.fs1 <= e.T1
       /\ e.n1 + e.fs1 <= (e.n + e.fs) - e.m /\ ((e.n + e.fs) - e.m) + e.f <= e.T1

\* a call with one parked entry (f = 1): 4 LMS suffixes with 3 names give a
\* text of 3 symbols over 2 names
C20_Witness ==
  /\ Returned /\ ret = 0 /\ T = cbcacbcacbcacbcabac /\ arg.fs = 0 /\ Len(heap.recs) = 2
  /\ heap.recs[2].f = 1 /\ heap.recs[2].names = 3 /\ heap.recs[2].k1 = 2 /\ heap.recs[2].n1 = 3
  /\ heap.recs[2].T1 = 7 /\ heap.recs[2].fs1 = 3

\* ------------------------------------------------------------------ stages
\* The stages of libsais_main_8u and of the 1k variant of libsais_main_32s,
\* one action each, on the texts of StageTexts: the type scanner, the radix
\* sort with the two partial induction scans, the naming, and the same three
\* on the reduced text when the names are not distinct and the free space
\* selects the 1k variant.  pc names the stage reached, fn the driver; arg
\* holds n, fs, the number m of LMS suffixes, the number of names, and for the
\* byte path the bucket table, for the integer path the constants of the call
\* (the offsets of the text and of the bucket table, k, fs).

\* longest binary text enumerated in full
MaxStageLen == 10

\* most blocks in a text put together from Blocks; every block ends in an
\* LMS position, so that the reduced text has one symbol for each block but
\* the last
MaxBlocks == 7
Blocks == {<<1, 0>>, <<2, 0>>, <<1, 1, 0>>}

RECURSIVE Flatten(_, _)
Flatten(bs, i) == IF i > Len(bs) THEN <<>> ELSE bs[i] \o Flatten(bs, i + 1)

BlockTexts == {Text(Flatten(bs, 1)) : bs \in UNION {[1..b -> Blocks] : b \in 2..MaxBlocks}}

StageTexts ==
  UNION {[0..(l - 1) -> 0..1] : l \in 2..MaxStageLen}
    \cup {t \in AllTexts : TextLen(t) >= 2} \cup Samples \cup BlockTexts

StageInit ==
  \E t \in StageTexts, fs \in {0, 1} :
    /\ pc = "text"
    /\ fn = "libsais_main_8u"
    /\ arg = [n |-> TextLen(t), fs |-> fs, m |-> 0, name |-> 0, bwt |-> FALSE,
              buckets |-> [i \in 0..((8 * ALPHABET_SIZE) - 1) |-> -7]]
    /\ T = t
    /\ SA = [i \in 0..(((TextLen(t) + fs) + (TextLen(t) \div 2)) - 1) |-> -7]
    /\ U = [i \in 0..(TextLen(t) - 1) |-> 0]
    /\ heap = Heap0(TextLen(t), fs, {}, 0, -7)
    /\ ret = 0
    /\ zeros = 0

\* libsais_main_8u: the type scanner
Scan ==
  /\ pc = "text"
  /\ LET r == libsais_count_and_gather_lms_suffixes_8u_omp(T, SA, arg.n, arg.buckets, 1)
     IN /\ SA' = r.SA
        /\ arg' = [arg EXCEPT !.m = r.m, !.buckets = libsais_initialize_buckets_start_and_end_8u(r.buckets)]
  /\ pc' = "scanned"
  /\ UNCHANGED <<fn, T, U, heap, ret, zeros>>

\* libsais_main_8u, m > 0: the radix sort of the LMS suffixes and the two
\* partial induction scans
Sort ==
  /\ pc = "scanned"
  /\ arg.m > 0
  /\ LET first_lms_suffix == SA[arg.n - arg.m]
         r == libsais_initialize_buckets_for_lms_suffixes_radix_sort_8u(T, arg.buckets, first_lms_suffix)
         s == libsais_radix_sort_lms_suffixes_8u_omp(T, SA, arg.n, arg.m, r.buckets, 1)
         p == libsais_induce_partial_order_8u_omp(T, s.SA, arg.n,
                libsais_initialize_buckets_for_partial_sorting_8u(T, s.buckets, first_lms_suffix, r.sum),
                first_lms_suffix, r.sum, 1)
     IN /\ SA' = p.SA
        /\ arg' = [arg EXCEPT !.buckets = p.buckets]
  /\ pc' = "sorted"
  /\ UNCHANGED <<fn, T, U, heap, ret, zeros>>

\* libsais_main_8u: the naming
Name ==
  /\ pc = "sorted"
  /\ LET r == libsais_renumber_and_gather_lms_suffixes_8u_omp(SA, arg.n, arg.m, arg.fs, 1)
     IN /\ SA' = r.SA
        /\ arg' = [arg EXCEPT !.name = r.name]
  /\ pc' = "named"
  /\ UNCHANGED <<fn, T, U, heap, ret, zeros>>

\* libsais_main_32s entered from libsais_main_8u with the 1k variant: the
\* scratch block, the counting and the radix sort that finds m
Scan32s ==
  /\ pc = "named"
  /\ arg.name < arg.m
  /\ LET c == libsais_main_32s_constants((arg.n + arg.fs) - arg.m, arg.m, arg.name,
                                         (arg.fs + arg.n) - (2 * arg.m), 1, heap)
         a == IF c.fs < c.k THEN libsais_alloc_aligned(heap) ELSE [h |-> heap, ptr |-> NULL]
         r == libsais_radix_sort_lms_suffixes_32s_1k(c.T,
                libsais_initialize_buckets_end_32s_1k(
                  libsais_count_suffixes_32s(c.T, MemSet(libsais_main_32s_scratch(c, SA, a.ptr), 0, c.n, 0),
                                             c.n, c.k, c.buckets),
                  c.k, c.buckets),
                c.n, c.buckets)
     IN /\ c.variant = 1
        /\ SA' = r.SA
        /\ heap' = a.h
        /\ arg' = [n |-> c.n, fs |-> c.fs, m |-> r.m, name |-> 0, f |-> 0, T |-> c.T, k |-> c.k,
                   buckets |-> c.buckets]
  /\ pc' = "scanned32s"
  /\ fn' = "libsais_main_32s"
  /\ UNCHANGED <<T, U, ret, zeros>>

\* libsais_main_32s, 1k variant, m > 1: the two partial induction scans
Sort32s ==
  /\ pc = "scanned32s"
  /\ arg.m > 1
  /\ SA' = libsais_induce_partial_order_32s_1k(arg.T, SA, arg.n, arg.k, arg.buckets)
  /\ pc' = "sorted32s"
  /\ UNCHANGED <<fn, arg, T, U, heap, ret, zeros>>

\* libsais_main_32s, 1k variant: the naming
Name32s ==
  /\ pc = "sorted32s"
  /\ LET r == libsais_renumber_and_mark_distinct_lms_suffixes_32s_1k(arg.T, SA, arg.n, arg.m)
     IN /\ SA' = r.SA
        /\ arg' = [arg EXCEPT !.name = r.name]
  /\ pc' = "named32s"
  /\ UNCHANGED <<fn, T, U, heap, ret, zeros>>

\* libsais_main_32s, 1k variant, names < m: the compaction
Compact32s ==
  /\ pc = "named32s"
  /\ arg.name < arg.m
  /\ LET r == libsais_compact_lms_suffixes_32s_omp(arg.T, SA, arg.n, arg.m, arg.fs, 1)
     IN /\ SA' = r.SA
        /\ arg' = [arg EXCEPT !.f = r.f]
  /\ pc' = "compacted32s"
  /\ UNCHANGED <<fn, T, U, heap, ret, zeros>>

\* libsais_main_8u, every LMS substring named apart (or no LMS suffix at all):
\* the sorted LMS suffixes are placed at the ends of their buckets
Place ==
  /\ \/ /\ pc = "named"
        /\ arg.name = arg.m
        /\ SA' = libsais_place_lms_suffixes_interval_8u(SA, arg.n, arg.m, arg.buckets)
     \/ /\ pc = "scanned"
        /\ arg.m = 0
        /\ SA' = MemSet(SA, 0, arg.n, 0)
  /\ pc' = "placed"
  /\ UNCHANGED <<fn, arg, T, U, heap, ret, zeros>>

\* libsais_main_8u: the final induction, of the suffix array or of the transform
Induce ==
  /\ pc = "placed"
  /\ \E bwt \in BOOLEAN :
       LET r == libsais_induce_final_order_8u_omp(T, SA, arg.n, bwt, arg.buckets, 1)
       IN /\ SA' = r.SA
          /\ arg' = [arg EXCEPT !.bwt = bwt, !.buckets = r.buckets]
          /\ ret' = r.index
          /\ zeros' = r.zeros
  /\ pc' = "induced"
  /\ UNCHANGED <<fn, T, U, heap>>


\* ------------------------------------------------------------------- C16
\* position i of the text t[0..n) is S-type when its suffix is smaller than the
\* next one (the last position is L-type: the sentinel behind it is smallest),
\* and LMS when it is S-type and position i - 1 is L-type
SType(t, n, i) == i < n - 1 /\ SuffixLess(t, n, i, i + 1)
IsLMS(t, n, i) == i >= 1 /\ SType(t, n, i) /\ ~SType(t, n, i - 1)
LMSPositions(t, n) == {i \in 0..(n - 1) : IsLMS(t, n, i)}

\* C16: after the type scanner m is the number of LMS positions of T, and
\* SA[n-m..n) holds exactly those positions in ascending order
C16_TypeScanner ==
  (pc = "scanned") =>
    /\ arg.m = Cardinality(LMSPositions(T, arg.n))
    /\ {SA[i] : i \in (arg.n - arg.m)..(arg.n - 1)} = LMSPositions(T, arg.n)
    /\ \A i \in (arg.n - arg.m)..(arg.n - 2) : SA[i] < SA[i + 1]

\* abracadabra scanned: LMS positions 3, 5 and 7
C16_Witness ==
  /\ pc = "scanned" /\ T = abracadabra /\ arg.m = 3
  /\ SA[8] = 3 /\ SA[9] = 5 /\ SA[10] = 7

\* ------------------------------------------------------------------- C18
\* the position held by cell i of SA, without its sign bit
Held(i) == AndMax(SA[i])

\* C18 as stated: after the two partial induction scans SA[0..m) holds the m
\* LMS positions in the lexicographic order of their suffixes
C18_AsStated ==
  (pc = "sorted") =>
    /\ {Held(i) : i \in 0..(arg.m - 1)} = LMSPositions(T, arg.n)
    /\ \A i \in 0..(arg.m - 2) : SuffixLess(T, arg.n, Held(i), Held(i + 1))

\* the LMS substring of the LMS position p: the symbols from p up to the next
\* LMS position, or up to the sentinel (written -1) behind the text when p is
\* the last LMS position
LMSEnd(t, n, p) ==
  IF \E q \in LMSPositions(t, n) : q > p
  THEN CHOOSE q \in LMSPositions(t, n) : q > p /\ \A x \in LMSPositions(t, n) : x > p => q <= x
  ELSE n
LMSSubstring(t, n, p) == [l \in 0..(LMSEnd(t, n, p) - p) |-> IF p + l < n THEN t[p + l] ELSE -1]

\* C18: after the two partial induction scans SA[0..m) holds the m LMS
\* positions in the order of their LMS substrings: of two LMS suffixes whose
\* LMS substrings differ the smaller suffix comes first (the order of those
\* with equal LMS substrings is left open)
C18_SubstringOrder ==
  (pc = "sorted") =>
    /\ {Held(i) : i \in 0..(arg.m - 1)} = LMSPositions(T, arg.n)
    /\ \A i \in 0..(arg.m - 1) : \A j \in (i + 1)..(arg.m - 1) :
         LMSSubstring(T, arg.n, Held(i)) # LMSSubstring(T, arg.n, Held(j))
           => SuffixLess(T, arg.n, Held(i), Held(j))

\* 10101010 sorted: the LMS suffixes 1 and 3 have the LMS substring 010 and
\* stand in text order, 1 before 3, though the suffix at 3 is the smaller
C18_Witness ==
  /\ pc = "sorted" /\ T = Text(<<1, 0, 1, 0, 1, 0, 1, 0>>) /\ arg.m = 3
  /\ Held(0) = 5 /\ Held(1) = 1 /\ Held(2) = 3
  /\ SuffixLess(T, arg.n, 3, 1)

\* ------------------------------------------------------------------- C17
\* the name the byte path gave the LMS position p: when the names are not
\* distinct they stand in text order in the reduced text, at SA[n + fs - m ..
\* n + fs); when they are distinct the name is the place in the order
ReducedSymbol(p) ==
  SA[((arg.n + arg.fs) - arg.m) + Cardinality({q \in LMSPositions(T, arg.n) : q < p})]
\* the name the 1k variant gave the LMS position p of the reduced text
Name32sOf(p) == AndMax(SA[arg.m + (p \div 2)])

\* C17: after naming, two LMS suffixes adjacent in the order of SA[0..m) have
\* the same name exactly when their LMS substrings have the same length and
\* the same symbols, on the byte path and on the 1k integer path
C17_Names ==
  /\ (pc = "named") =>
       \A i \in 0..(arg.m - 2) :
         (arg.name < arg.m /\ ReducedSymbol(Held(i)) = ReducedSymbol(Held(i + 1)))
           <=> (LMSSubstring(T, arg.n, Held(i)) = LMSSubstring(T, arg.n, Held(i + 1)))
  /\ (pc = "named32s") =>
       \A i \in 0..(arg.m - 2) :
         (Name32sOf(SA[i]) = Name32sOf(SA[i + 1]))
           <=> (LMSSubstring(Cells(SA, arg.T, arg.n), arg.n, SA[i])
                  = LMSSubstring(Cells(SA, arg.T, arg.n), arg.n, SA[i + 1]))

\* the reduced text of cbcacbcacbcacbcabac named by the 1k variant: 4 LMS
\* suffixes, 3 names, the LMS substrings 121 at 1 and at 3 alike
C17_Witness ==
  /\ pc = "named32s" /\ T = cbcacbcacbcacbcabac /\ arg.fs = 1 /\ arg.n = 9 /\ arg.m = 4 /\ arg.name = 3
  /\ SA[2] = 1 /\ SA[3] = 3 /\ Name32sOf(1) = Name32sOf(3) /\ Name32sOf(5) # Name32sOf(1)

\* the LMS substring of p without its closing symbol: from p up to the symbol
\* before the next LMS position, for the last LMS position up to the end of
\* the text
LMSBody(t, n, p) == [l \in 0..((LMSEnd(t, n, p) - 1) - p) |-> t[p + l]]

\* a and b have the same symbols at every offset they both cover
AgreeOnShorter(a, b) == \A l \in DOMAIN a \cap DOMAIN b : a[l] = b[l]

\* C17: after naming, of two LMS suffixes adjacent in the order of SA[0..m)
\* the byte path gives the same name to those with equal LMS substrings, and
\* those it gives the same name agree on every symbol before the closing one
\* of the shorter LMS substring (the closing symbols are not compared); the 1k
\* integer path gives the same name exactly when the LMS substrings have the
\* same length and the same symbols
C17_NamesAgree ==
  /\ (pc = "named") =>
       \A i \in 0..(arg.m - 2) :
         LET same == arg.name < arg.m /\ ReducedSymbol(Held(i)) = ReducedSymbol(Held(i + 1))
         IN /\ (LMSSubstring(T, arg.n, Held(i)) = LMSSubstring(T, arg.n, Held(i + 1))) => same
            /\ same => AgreeOnShorter(LMSBody(T, arg.n, Held(i)), LMSBody(T, arg.n, Held(i + 1)))
  /\ (pc = "named32s") =>
       \A i \in 0..(arg.m - 2) :
         (Name32sOf(SA[i]) = Name32sOf(SA[i + 1]))
           <=> (LMSSubstring(Cells(SA, arg.T, arg.n), arg.n, SA[i])
                  = LMSSubstring(Cells(SA, arg.T, arg.n), arg.n, SA[i + 1]))

\* ------------------------------------------------------------------- C21
\* before the compaction: the LMS suffix at p has a name no other has
Unique32s(p) == SA[arg.m + (p \div 2)] < 0
\* before the compaction: how many of the LMS suffixes before p in the text are
\* unique (u = TRUE) or not (u = FALSE)
Before32s(p, u) == Cardinality({i \in 0..(arg.m - 1) : SA[i] < p /\ Unique32s(SA[i]) = u})
\* before the compaction: how many of the LMS suffixes before place i of the
\* order are unique
UniqueBelow(i) == Cardinality({j \in 0..(i - 1) : Unique32s(SA[j])})

\* what the compaction stores at offset base for the unique LMS suffixes and
\* at offset text for the others: for the j-th unique one in text order its
\* place in the order, for the j-th other its name less the unique ones
\* before it in the order, counted from 0
Compacted(base, text) ==
  /\ arg'.f = UniqueBelow(arg.m)
  /\ \A i \in 0..(arg.m - 1) :
       IF Unique32s(SA[i])
       THEN SA'[base + Before32s(SA[i], TRUE)] = i
       ELSE SA'[text + Before32s(SA[i], FALSE)] = (Name32sOf(SA[i]) - UniqueBelow(i)) - 1

\* C21: the compaction on the integer path stores the f entries of the unique
\* LMS suffixes in SA[n+fs-m .. n+fs-m+f) and the reduced text of length m - f
\* behind them in SA[n+fs-m+f .. n+fs)
C21_Compacted ==
  [][(pc = "named32s" /\ pc' = "compacted32s") =>
       Compacted((arg.n + arg.fs) - arg.m, ((arg.n + arg.fs) - arg.m) + arg'.f)]_vars

\* C21 as stated: the f entries of the unique LMS suffixes are stored in
\* SA[n+fs-f .. n+fs) and the reduced text of length m - f in SA[0 .. m-f)
C21_AsStated ==
  [][(pc = "named32s" /\ pc' = "compacted32s") =>
       Compacted((arg.n + arg.fs) - arg'.f, 0)]_vars

\* the reduced text of cbcacbcacbcacbcabac compacted: one of its 4 LMS suffixes
\* is unique, the 3 others make the text of the next level
C21_Witness ==
  /\ pc = "compacted32s" /\ T = cbcacbcacbcacbcabac /\ arg.fs = 1 /\ arg.n = 9 /\ arg.m = 4 /\ arg.f = 1
  /\ SA[(arg.n + arg.fs) - arg.m] = 0

\* ------------------------------------------------------------------- C22
\* a cell holds a text index when, its sign bit masked off, it lies in [0, n)
TextIndex(v, n) == AndMax(v) \in 0..(n - 1)
\* a cell no phase has written yet still holds what the caller left in it
Unwritten(v) == v = heap.junk
\* the final scans of the transform have run over SA
Transformed == pc = "induced" /\ arg.bwt

LMSBelow(t, n, p) == Cardinality({q \in LMSPositions(t, n) : q < p})

\* C23: the type scanner of the byte path leaves the LMS positions of T in text
\* order in the last m cells SA[n-m..n): cell n-m+j holds the position with j
\* LMS positions before it; the cells SA[0..n-m-1) keep what they held before
\* the scan, the scanner does not clear them
C23_Gathered ==
  [][(pc = "text" /\ pc' = "scanned") =>
       /\ \A p \in LMSPositions(T, arg.n) : SA'[(arg.n - arg'.m) + LMSBelow(T, arg.n, p)] = p
       /\ \A i \in 0..((arg.n - arg'.m) - 2) : SA'[i] = SA[i]]_vars

\* C23 as stated: after the gathering every cell of SA[0..n-m) is 0, whatever
\* SA held before
C23_AsStated == (pc = "scanned") => \A i \in 0..((arg.n - arg.m) - 1) : SA[i] = 0

\* abracadabra scanned: of the eight cells before the three LMS positions the
\* first seven still hold the initial contents
C23_Witness ==
  /\ pc = "scanned" /\ T = abracadabra /\ arg.m = 3
  /\ SA[8] = 3 /\ SA[9] = 5 /\ SA[10] = 7
  /\ \A i \in 0..6 : SA[i] = heap.junk

\* ============================================================== the scans
\* The byte path of libsais_main_8u with its four induction scans of the
\* suffix array taken one cell at a time: arg.i is the cell the running scan
\* reads next, arg.d its group counter.

\* longest text of two symbols
MaxScanLen == 10

ScanTexts ==
  UNION {[0..(l - 1) -> 0..1] : l \in 2..MaxScanLen}
    \cup {t \in AllTexts : TextLen(t) >= 2} \cup Samples

ScanInit ==
  \E t \in ScanTexts :
    /\ pc = "text"
    /\ fn = "libsais_main_8u"
    /\ arg = [n |-> TextLen(t), fs |-> 0, m |-> 0, name |-> 0, bwt |-> FALSE,
              buckets |-> [i \in 0..((8 * ALPHABET_SIZE) - 1) |-> -7],
              first_lms_suffix |-> 0, left_suffixes_count |-> 0, i |-> 0, d |-> 0]
    /\ T = t
    /\ SA = [i \in 0..((TextLen(t) + (TextLen(t) \div 2)) - 1) |-> -7]
    /\ U = [i \in 0..(TextLen(t) - 1) |-> 0]
    /\ heap = Heap0(TextLen(t), 0, {}, 0, -7)
    /\ ret = 0
    /\ zeros = 0

\* libsais_main_8u, m > 0: the radix sort of the LMS suffixes, the buckets of
\* the partial induction and the last suffix of the text put at the head of
\* its bucket
Radix ==
  /\ pc = "scanned"
  /\ arg.m > 0
  /\ LET first_lms_suffix == SA[arg.n - arg.m]
         r == libsais_initialize_buckets_for_lms_suffixes_radix_sort_8u(T, arg.buckets, first_lms_suffix)
         s == libsais_radix_sort_lms_suffixes_8u_omp(T, SA, arg.n, arg.m, r.buckets, 1)
         b == libsais_initialize_buckets_for_partial_sorting_8u(T, s.buckets, first_lms_suffix, r.sum)
         p == libsais_partial_sorting_scan_left_to_right_8u_omp(T, s.SA, arg.n,
                MemSet(b, 2 * ALPHABET_SIZE, 2 * ALPHABET_SIZE, 0), 0, 0, 1)
     IN /\ SA' = p.SA
        /\ arg' = [arg EXCEPT !.buckets = p.buckets, !.d = p.d, !.i = 0,
                               !.first_lms_suffix = first_lms_suffix, !.left_suffixes_count = r.sum]
  /\ pc' = "left"
  /\ UNCHANGED <<fn, T, U, heap, ret, zeros>>

\* libsais_partial_sorting_scan_left_to_right_8u: one cell
Left ==
  /\ pc = "left"
  /\ arg.i < arg.left_suffixes_count
  /\ LET r == libsais_partial_sorting_scan_left_to_right_8u(T, SA, arg.buckets, arg.d, arg.i, 1)
     IN /\ SA' = r.SA
        /\ arg' = [arg EXCEPT !.buckets = r.buckets, !.d = r.d, !.i = @ + 1]
  /\ UNCHANGED <<pc, fn, T, U, heap, ret, zeros>>

\* libsais_partial_sorting_scan_right_to_left_8u: one cell
Right ==
  /\ pc = "right"
  /\ arg.i >= arg.left_suffixes_count + 1
  /\ LET r == libsais_partial_sorting_scan_right_to_left_8u(T, SA, arg.buckets, arg.d, arg.i, 1)
     IN /\ SA' = r.SA
        /\ arg' = [arg EXCEPT !.buckets = r.buckets, !.d = r.d, !.i = @ - 1]
  /\ UNCHANGED <<pc, fn, T, U, heap, ret, zeros>>

\* libsais_final_bwt_scan_left_to_right_8u and
\* libsais_final_sorting_scan_left_to_right_8u: one cell
FinalLeft ==
  /\ pc = "finalleft"
  /\ arg.i < arg.n
  /\ LET r == IF arg.bwt
              THEN libsais_final_bwt_scan_left_to_right_8u(T, SA, 6 * ALPHABET_SIZE, arg.buckets, arg.i, 1)
              ELSE libsais_final_sorting_scan_left_to_right_8u(T, SA, 6 * ALPHABET_SIZE, arg.buckets, arg.i, 1)
     IN /\ SA' = r.SA
        /\ arg' = [arg EXCEPT !.buckets = r.buckets, !.i = @ + 1]
  /\ UNCHANGED <<pc, fn, T, U, heap, ret, zeros>>

\* libsais_final_bwt_scan_right_to_left_8u and
\* libsais_final_sorting_scan_right_to_left_8u: one cell
FinalRight ==
  /\ pc = "finalright"
  /\ arg.i >= 0
  /\ LET r == IF arg.bwt
              THEN libsais_final_bwt_scan_right_to_left_8u(T, SA, 7 * ALPHABET_SIZE, arg.buckets, arg.i, 1)
              ELSE libsais_final_sorting_scan_right_to_left_8u(T, SA, 7 * ALPHABET_SIZE, arg.buckets, arg.i, 1)
     IN /\ SA' = r.SA
        /\ arg' = [arg EXCEPT !.buckets = r.buckets, !.i = @ - 1]
  /\ UNCHANGED <<pc, fn, T, U, heap, ret, zeros>>

\* what libsais_induce_partial_order_8u_omp and libsais_induce_final_order_8u_omp
\* do between two scans: the markers shifted before the right-to-left partial
\* scan, the last suffix of the text put at the head of its bucket before the
\* left-to-right final scan of either mode, the LMS suffixes cleared before the
\* right-to-left final scan of the transform
Turn ==
  /\ \/ /\ pc = "left"
        /\ arg.i = arg.left_suffixes_count
        /\ SA' = libsais_partial_sorting_shift_markers_8u_omp(SA, arg.n, arg.buckets, 1)
        /\ arg' = [arg EXCEPT !.i = (arg.n - arg.first_lms_suffix) - 1]
        /\ pc' = "right"
     \/ /\ pc = "right"
        /\ arg.i < arg.left_suffixes_count + 1
        /\ SA' = SA
        /\ arg' = arg
        /\ pc' = "sorted"
     \/ /\ pc = "placed"
        /\ LET c == T[arg.n - 1]
               induction_bucket == 6 * ALPHABET_SIZE
           IN /\ SA' = [SA EXCEPT ![arg.buckets[induction_bucket + c]] =
                                      OrFlag(arg.n - 1, T[arg.n - 2] < T[arg.n - 1])]
              /\ \E bwt \in BOOLEAN :
                   arg' = [arg EXCEPT !.buckets[induction_bucket + c] = @ + 1, !.i = 0, !.bwt = bwt]
        /\ pc' = "finalleft"
     \/ /\ pc = "finalleft"
        /\ arg.i = arg.n
        /\ SA' = IF arg.bwt
                 THEN libsais_clear_lms_suffixes_omp(SA, arg.n, ALPHABET_SIZE, 6 * ALPHABET_SIZE,
                                                     7 * ALPHABET_SIZE, arg.buckets, 1)
                 ELSE SA
        /\ arg' = [arg EXCEPT !.i = arg.n - 1]
        /\ pc' = "finalright"
     \/ /\ pc = "finalright"
        /\ arg.i < 0
        /\ SA' = SA
        /\ arg' = arg
        /\ pc' = "induced"
  /\ UNCHANGED <<fn, T, U, heap, ret, zeros>>

ScanNext == Scan \/ Radix \/ Left \/ Right \/ Name \/ Place \/ FinalLeft \/ FinalRight \/ Turn

Scans == ScanInit /\ [][ScanNext]_vars

\* the scans taken cell by cell end where the whole scans end
ScansSorted == (pc = "induced" /\ ~arg.bwt) => \A i \in 0..(arg.n - 2) : SuffixLess(T, arg.n, SA[i], SA[i + 1])

\* ------------------------------------------------------------------- C24
\* the bucket pointers among buckets[lo..lo+len) that a step has moved
Moved(lo, len) == {c \in lo..((lo + len) - 1) : arg'.buckets[c] # arg.buckets[c]}
\* the cells a step of a left-to-right scan has written, SA[induction_bucket[v]++],
\* and those a step of a right-to-left scan has written, SA[--induction_bucket[v]]
Heads(lo, len) == {arg.buckets[c] : c \in Moved(lo, len)}
Tails(lo, len) == {arg'.buckets[c] : c \in Moved(lo, len)}

\* C24: a step of a left-to-right scan writes to a cell after the one it read,
\* a step of a right-to-left scan to a cell before the one it read
C24_Ahead ==
  [][/\ (pc = "left" /\ pc' = "left") =>
          \A w \in Heads(4 * ALPHABET_SIZE, 2 * ALPHABET_SIZE) : w > arg.i
     /\ (pc = "right" /\ pc' = "right") =>
          \A w \in Tails(0, 2 * ALPHABET_SIZE) : w < arg.i
     /\ (pc = "finalleft" /\ pc' = "finalleft") =>
          \A w \in Heads(6 * ALPHABET_SIZE, ALPHABET_SIZE) : w > arg.i
     /\ (pc = "finalright" /\ pc' = "finalright") =>
          \A w \in Tails(7 * ALPHABET_SIZE, ALPHABET_SIZE) : w < arg.i]_vars

\* abracadabra in its left-to-right final scan: the step before read a suffix at
\* cell i - 1 and wrote the suffix before it to a later cell w, the head of the
\* bucket of its first symbol, which now stands at w + 1
C24_Witness ==
  /\ pc = "finalleft"
  /\ T = abracadabra
  /\ arg.i > 0
  /\ SA[arg.i - 1] < 0
  /\ \E w \in arg.i..(arg.n - 1) :
       /\ AndMax(SA[w]) = AndMax(SA[arg.i - 1]) - 1
       /\ arg.buckets[(6 * ALPHABET_SIZE) + T[AndMax(SA[w])]] = w + 1

\* ------------------------------------------------------------------- C25
\* the places of T that the next step of the running scan reads: T[p - 1] and
\* T[p - 2] in the partial scans, for the p of the cell read; T[p] and
\* T[p - (p > 0)] in the final scans, for p one less than a positive cell read;
\* T[n - 1] and T[n - 2] where the last suffix is put into its bucket before a
\* left-to-right scan
Reads ==
  IF (pc = "left" /\ arg.i < arg.left_suffixes_count) \/ (pc = "right" /\ arg.i >= arg.left_suffixes_count + 1)
  THEN {AndMax(SA[arg.i]) - 1, AndMax(SA[arg.i]) - 2}
  ELSE IF (pc = "finalleft" /\ arg.i < arg.n) \/ (pc = "finalright" /\ arg.i >= 0)
  THEN (IF SA[arg.i] > 0 THEN {SA[arg.i] - 1, (SA[arg.i] - 1) - B2I(SA[arg.i] - 1 > 0)} ELSE {})
  ELSE IF (pc = "scanned" /\ arg.m > 0) \/ pc = "placed"
  THEN {arg.n - 1, arg.n - 2}
  ELSE {}

\* C25: every place of T that a step of an induction scan reads lies in [0, n)
C25_Inside == Reads \subseteq 0..(arg.n - 1)

\* the right-to-left partial scan of a text whose first LMS suffix is at 1
\* reads T[1] and T[0] for the suffix at 2 that it finds in the cell
C25_Witness ==
  /\ pc = "right"
  /\ arg.i >= arg.left_suffixes_count + 1
  /\ arg.first_lms_suffix = 1
  /\ AndMax(SA[arg.i]) = 2
  /\ Reads = {0, 1}

\* ------------------------------------------------------------------- C26
\* the blocks that the allocations numbered first + 1 .. last acquired
Blocks26(first, last) == Cardinality(((first + 1)..last) \ heap.fail)
\* the blocks that the call of libsais_main_32s logged j-th acquired itself:
\* those acquired between its entry and its return, less those of the call
\* nested in it, which is the one logged just before it
Acquired(j) ==
  Blocks26(heap.texts[j].first, heap.texts[j].last)
    - (IF j > 1 THEN Blocks26(heap.texts[j - 1].first, heap.texts[j - 1].last) ELSE 0)

\* C26: a call of libsais_main_32s returns with every block it acquired
\* released; with fs >= k, or in the 6k, 4k and 2k variants, it acquires none;
\* in the 1k variant with fs < k it acquires at most two, the second one only
\* after a nested call that returned 0, the first having been released
\* before that call
C26_Scratch ==
  Returned => \A j \in 1..Len(heap.texts) :
    LET e == heap.texts[j]
    IN /\ e.held = {}
       /\ (e.variant > 1 \/ e.fs >= e.k) => Acquired(j) = 0
       /\ (e.variant = 1 /\ e.fs < e.k) =>
            /\ Acquired(j) <= 2
            /\ (Acquired(j) = 2) => (j > 1 /\ heap.texts[j - 1].ret = 0)
            /\ (Acquired(j) = 0) => e.ret = -2

\* C26 as stated: with fs < k a call acquires a single block
C26_AsStated ==
  Returned => \A j \in 1..Len(heap.texts) :
    (heap.texts[j].variant = 1 /\ heap.texts[j].fs < heap.texts[j].k) => Acquired(j) <= 1

\* a call of the 1k variant that released its block, made its nested call got
\* a second block and released it too
C26_Witness ==
  /\ Returned /\ ret = 0 /\ Len(heap.texts) = 2
  /\ heap.texts[2].variant = 1 /\ heap.texts[2].fs < heap.texts[2].k
  /\ Acquired(2) = 2 /\ heap.texts[2].held = {} /\ heap.live = {}

\* ------------------------------------------------------------------- C27
\* C27: a call of libsais_main_32s that returns -2 leaves every symbol of its
\* text as it was but for the sign bit: the marks that the compaction set stay
\* in the text when the nested call has failed
C27_Marks ==
  Returned => \A j \in 1..Len(heap.texts) :
    heap.texts[j].ret = -2 =>
      \A i \in 0..(heap.texts[j].n - 1) : AndMax(heap.texts[j].exit[i]) = heap.texts[j].entry[i]

\* C27 as stated: a call that returns -2 leaves its text as it was at entry
C27_AsStated ==
  Returned => \A j \in 1..Len(heap.texts) :
    heap.texts[j].ret = -2 => heap.texts[j].exit = heap.texts[j].entry

\* the third allocation refused: the second call of libsais_main_32s returns
\* -2 with nothing done, the first one returns -2 with a mark left in its text
C27_Witness ==
  /\ Returned /\ T = twolevels /\ heap.fail = {3} /\ ret = -2
  /\ Len(heap.texts) = 2
  /\ heap.texts[1].ret = -2 /\ heap.texts[1].exit = heap.texts[1].entry
  /\ heap.texts[2].ret = -2 /\ heap.texts[2].n = 19
  /\ heap.texts[2].entry[17] = 0 /\ heap.texts[2].exit[17] = INT_MIN

\* ============================================================= the blocks
\* The left-to-right partial scan of the byte path as libsais_main_8u runs it
\* with more than one thread: SA cleared around the radix sort, the scan cut
\* into blocks of cells that are all in use, and a block of enough cells
\* handed to the threads, which prepare, meet at the barrier, let one of them
\* reconcile the bucket pointers, and place.  The sizes that decide this are
\* taken small here: the text need not hold 65536 symbols, ParallelBlock
\* stands for the 16384 cells from which the parallel region is active (a
\* smaller block is scanned by one thread, in line below 32 cells), StrideAlign for
\* the 16 cells a thread's share is a multiple of, and CacheSize for
\* LIBSAIS_PER_THREAD_CACHE_SIZE.
BlockThreads == 3
ParallelBlock == 4
StrideAlign == 2
CacheSize == 8

MaxBlockScanLen == 14

\* texts whose second block holds the heads of two groups of names
twogroups == Text(<<1, 1, 0, 1, 1, 0, 1, 1, 0, 2, 2, 0, 2, 2, 0>>)
sixcells == Text(<<1, 1, 0, 1, 1, 0, 1, 1, 0, 1, 1, 0, 2, 2, 0, 2, 2, 0, 2, 2, 0>>)

BlockScanTexts ==
  UNION {[0..(l - 1) -> 0..1] : l \in 2..MaxStageLen}
    \cup Samples \cup {t \in BlockTexts : TextLen(t) <= MaxBlockScanLen} \cup {twogroups, sixcells}

\* thread t of arg.threads working on the block arg.i .. arg.block_end - 1
Threads == 0..(arg.threads - 1)
omp_block_stride == (((arg.block_end - arg.i) \div arg.threads) \div StrideAlign) * StrideAlign
omp_block_start_first(t) == arg.i
omp_block_start(t) == arg.i + (t * omp_block_stride)
omp_block_size_whole(t) == arg.block_end - omp_block_start(t)
omp_block_size(t) ==
  IF t < arg.threads - 1 THEN omp_block_stride ELSE (arg.block_end - arg.i) - (t * omp_block_stride)

BlocksInit ==
  \E t \in BlockScanTexts, threads \in 2..BlockThreads :
    /\ pc = "text"
    /\ fn = "libsais_main_8u"
    /\ arg = [n |-> TextLen(t), fs |-> 0, m |-> 0, name |-> 0, bwt |-> FALSE,
              buckets |-> [i \in 0..((8 * ALPHABET_SIZE) - 1) |-> -7],
              first_lms_suffix |-> 0, left_suffixes_count |-> 0, i |-> 0, d |-> 0,
              threads |-> threads, block_end |-> 0, single |-> 0,
              thread_state |-> [u \in 0..(threads - 1) |->
                                  [buckets |-> [c \in 0..((4 * ALPHABET_SIZE) - 1) |-> -7],
                                   cache |-> <<>>, position |-> 0, count |-> 0]],
              at |-> [u \in 0..(threads - 1) |-> "idle"],
              touched |-> {},
              before |-> [SA |-> <<>>, buckets |-> <<>>, d |-> 0],
              start |-> [SA |-> <<>>, buckets |-> <<>>, d |-> 0]]
    /\ T = t
    /\ SA = [i \in 0..((TextLen(t) + (TextLen(t) \div 2)) - 1) |-> -7]
    /\ U = [i \in 0..(TextLen(t) - 1) |-> 0]
    /\ heap = Heap0(TextLen(t), 0, {}, 0, -7)
    /\ ret = 0
    /\ zeros = 0

\* libsais_main_8u with threads > 1, m > 0: SA cleared, the radix sort of the
\* LMS suffixes, the buckets of the partial induction and the last suffix of
\* the text put at the head of its bucket
RadixOmp ==
  /\ pc = "scanned"
  /\ arg.m > 0
  /\ LET first_lms_suffix == SA[arg.n - arg.m]
         r == libsais_initialize_buckets_for_lms_suffixes_radix_sort_8u(T, arg.buckets, first_lms_suffix)
         s == libsais_radix_sort_lms_suffixes_8u_omp(T, MemSet(SA, 0, arg.n - arg.m, 0), arg.n, arg.m,
                                                     r.buckets, 1)
         b == libsais_initialize_buckets_for_partial_sorting_8u(T, s.buckets, first_lms_suffix, r.sum)
         p == libsais_partial_sorting_scan_left_to_right_8u_omp(T, MemSet(s.SA, arg.n - arg.m, arg.m, 0), arg.n,
                MemSet(b, 2 * ALPHABET_SIZE, 2 * ALPHABET_SIZE, 0), 0, 0, 1)
     IN /\ SA' = p.SA
        /\ arg' = [arg EXCEPT !.buckets = p.buckets, !.d = p.d, !.i = 0,
                               !.first_lms_suffix = first_lms_suffix, !.left_suffixes_count = r.sum,
                               !.start = [SA |-> p.SA, buckets |-> p.buckets, d |-> p.d]]
  /\ pc' = "block"
  /\ UNCHANGED <<fn, T, U, heap, ret, zeros>>

\* the end of the block that starts at cell i: the cells in use that follow,
\* as many as the caches of the threads hold
RECURSIVE BlockEnd(_, _)
BlockEnd(e, max) == IF e < max /\ SA[e] # 0 THEN BlockEnd(e + 1, max) ELSE e

block_max_end ==
  LET e == arg.i + (arg.threads * (CacheSize - (StrideAlign * arg.threads)))
  IN IF e > arg.left_suffixes_count THEN arg.left_suffixes_count ELSE e

\* libsais_partial_sorting_scan_left_to_right_8u_omp, the loop over the blocks:
\* a free cell is passed over, a block below ParallelBlock is scanned by one
\* thread, a larger one is handed to the threads; and when every thread has
\* placed, the loop goes on behind the block
Block ==
  /\ \/ /\ pc = "block"
        /\ arg.i < arg.left_suffixes_count
        /\ SA[arg.i] = 0
        /\ SA' = SA
        /\ arg' = [arg EXCEPT !.i = @ + 1]
        /\ pc' = "block"
     \/ /\ pc = "block"
        /\ arg.i < arg.left_suffixes_count
        /\ SA[arg.i] # 0
        /\ LET block_end == BlockEnd(arg.i + 1, block_max_end)
               block_size == block_end - arg.i
           IN IF block_size < ParallelBlock
              THEN LET r == libsais_partial_sorting_scan_left_to_right_8u(T, SA, arg.buckets, arg.d, arg.i,
                                                                           block_size)
                   IN /\ SA' = r.SA
                      /\ arg' = [arg EXCEPT !.buckets = r.buckets, !.d = r.d, !.i = block_end]
                      /\ pc' = "block"
              ELSE /\ SA' = SA
                   /\ arg' = [arg EXCEPT !.block_end = block_end,
                                          !.at = [u \in Threads |-> "idle"],
                                          !.before = [SA |-> SA, buckets |-> arg.buckets, d |-> arg.d]]
                   /\ pc' = "prepare"
     \/ /\ pc = "place"
        /\ \A u \in Threads : arg.at[u] = "placed"
        /\ SA' = SA
        /\ arg' = [arg EXCEPT !.i = arg.block_end]
        /\ pc' = "block"
     \/ /\ pc = "block"
        /\ arg.i >= arg.left_suffixes_count
        /\ SA' = SA
        /\ arg' = arg
        /\ pc' = "left"
  /\ UNCHANGED <<fn, T, U, heap, ret, zeros>>

\* libsais_partial_sorting_scan_left_to_right_8u_block_prepare by thread t, on
\* its share of the block, into its own buckets, cache, position and count
Prepare ==
  /\ pc = "prepare"
  /\ \E t \in Threads :
       /\ arg.at[t] = "idle"
       /\ LET induction_bucket == 0 * ALPHABET_SIZE
              distinct_names == 2 * ALPHABET_SIZE
              RECURSIVE loop(_, _, _, _)
              loop(i, b, cache, d) ==
                IF i < omp_block_start(t) + omp_block_size(t)
                THEN LET p0 == SA[i]
                         d1 == d + B2I(p0 < 0)
                         p == AndMax(p0)
                         v == BUCKETS_INDEX2(T[p - 1], B2I(T[p - 2] >= T[p - 1]))
                     IN loop(i + 1,
                             [b EXCEPT ![induction_bucket + v] = @ + 1, ![distinct_names + v] = d1],
                             Append(cache, [index |-> p0, symbol |-> v]), d1)
                ELSE [buckets |-> b, cache |-> cache, position |-> d - 1, count |-> Len(cache)]
          IN arg' = [arg EXCEPT !.thread_state[t] =
                                   loop(omp_block_start(t), [c \in 0..((4 * ALPHABET_SIZE) - 1) |-> 0], <<>>, 1),
                                 !.at[t] = "prepared",
                                 !.touched = @ \cup {[by |-> t, of |-> t, how |-> "write", phase |-> "parallel"]}]
  /\ pc' = IF \A u \in Threads : arg'.at[u] = "prepared" THEN "barrier" ELSE "prepare"
  /\ UNCHANGED <<fn, T, SA, U, heap, ret, zeros>>

\* behind the barrier, the omp single section, run by whichever thread gets
\* there first: the bucket pointers and the names of every thread's buckets
\* exchanged with the shared ones, and d moved on by every thread's position
Reconcile ==
  /\ pc = "barrier"
  /\ \E e \in Threads :
       LET induction_bucket == 4 * ALPHABET_SIZE
           distinct_names == 2 * ALPHABET_SIZE
           temp_induction_bucket == 0 * ALPHABET_SIZE
           temp_distinct_names == 2 * ALPHABET_SIZE
           RECURSIVE loop(_, _, _, _)
           loop(t, g, ts, d) ==
             IF t < arg.threads
             THEN LET temp == ts[t].buckets
                      g1 == [c \in DOMAIN g |->
                               IF c >= induction_bucket /\ c < induction_bucket + (2 * ALPHABET_SIZE)
                               THEN g[c] + temp[temp_induction_bucket + (c - induction_bucket)]
                               ELSE IF c >= distinct_names /\ c < distinct_names + (2 * ALPHABET_SIZE)
                               THEN (IF temp[temp_distinct_names + (c - distinct_names)] > 0
                                     THEN temp[temp_distinct_names + (c - distinct_names)] + (d - 1)
                                     ELSE g[c])
                               ELSE g[c]] @@ << >>
                      temp1 == [c \in DOMAIN temp |->
                                  IF c < temp_induction_bucket + (2 * ALPHABET_SIZE)
                                  THEN g[induction_bucket + (c - temp_induction_bucket)]
                                  ELSE g[distinct_names + (c - temp_distinct_names)]] @@ << >>
                      d1 == ((d - 1) + 1) + ts[t].position
                  IN loop(t + 1, g1,
                          [ts EXCEPT ![t] = [@ EXCEPT !.buckets = temp1, !.position = d1 - ts[t].position]],
                          d1)
             ELSE [buckets |-> g, thread_state |-> ts, d |-> d]
           r == loop(0, arg.buckets, arg.thread_state, arg.d)
       IN arg' = [arg EXCEPT !.buckets = r.buckets, !.thread_state = r.thread_state, !.d = r.d,
                             !.single = e,
                             !.at = [u \in Threads |-> "reconciled"],
                             !.touched = @ \cup {[by |-> e, of |-> u, how |-> "write", phase |-> "single"] :
                                                    u \in Threads}]
  /\ pc' = "place"
  /\ UNCHANGED <<fn, T, SA, U, heap, ret, zeros>>

\* libsais_partial_sorting_scan_left_to_right_8u_block_place by thread t, from
\* its own cache and with its own bucket pointers
PlaceBlock ==
  /\ pc = "place"
  /\ \E t \in Threads :
       /\ arg.at[t] = "reconciled"
       /\ LET induction_bucket == 0 * ALPHABET_SIZE
              distinct_names == 2 * ALPHABET_SIZE
              cache == arg.thread_state[t].cache
              RECURSIVE loop(_, _, _, _)
              loop(i, sa, b, d) ==
                IF i < arg.thread_state[t].count
                THEN LET p0 == cache[i + 1].index
                         d1 == d + B2I(p0 < 0)
                         v == cache[i + 1].symbol
                     IN loop(i + 1,
                             [sa EXCEPT ![b[induction_bucket + v]] = OrFlag(p0 - 1, b[distinct_names + v] # d1)],
                             [b EXCEPT ![induction_bucket + v] = @ + 1, ![distinct_names + v] = d1],
                             d1)
                ELSE [SA |-> sa, buckets |-> b]
              r == loop(0, SA, arg.thread_state[t].buckets, arg.thread_state[t].position)
          IN /\ SA' = r.SA
             /\ arg' = [arg EXCEPT !.thread_state[t].buckets = r.buckets,
                                    !.at[t] = "placed",
                                    !.touched = @ \cup {[by |-> t, of |-> t, how |-> "write", phase |-> "parallel"]}]
  /\ pc' = "place"
  /\ UNCHANGED <<fn, T, U, heap, ret, zeros>>

BlockNext == Scan \/ RadixOmp \/ Block \/ Prepare \/ Reconcile \/ PlaceBlock

BlockScans == BlocksInit /\ [][BlockNext]_vars

\* the block the threads have just finished, and what the serial scan of the
\* same cells makes of the state the block started from
BlockDone == pc = "place" /\ \A u \in Threads : arg.at[u] = "placed"
SerialBlock ==
  libsais_partial_sorting_scan_left_to_right_8u(T, arg.before.SA, arg.before.buckets, arg.before.d,
                                                arg.i, arg.block_end - arg.i)

\* C28: when every thread has placed, SA, the induction bucket pointers, the
\* distinct names and d are what the serial scan of the block leaves, for two
\* and for three threads, and no cell of the block has been written
C28_Serial ==
  BlockDone =>
    /\ SA = SerialBlock.SA
    /\ \A c \in (2 * ALPHABET_SIZE)..((6 * ALPHABET_SIZE) - 1) : arg.buckets[c] = SerialBlock.buckets[c]
    /\ arg.d = SerialBlock.d
    /\ \A i \in arg.i..(arg.block_end - 1) : SA[i] = arg.before.SA[i]

C28_Witness ==
  /\ BlockDone
  /\ arg.threads = 3
  /\ arg.block_end - arg.i = 6
  /\ T = sixcells
  /\ \A u \in Threads : arg.thread_state[u].count = 2
  /\ arg.d = arg.before.d + 2
  /\ \E i \in 0..(arg.n - 1) : SA[i] < 0 /\ arg.before.SA[i] = 0
  /\ \E i \in 0..(arg.n - 1) : SA[i] > 0 /\ arg.before.SA[i] = 0

\* the whole scan: behind the last block the state is what the serial scan of
\* the cells 0 .. left_suffixes_count - 1 leaves
BlocksSerial ==
  pc = "left" =>
    LET r == libsais_partial_sorting_scan_left_to_right_8u(T, arg.start.SA, arg.start.buckets, arg.start.d,
                                                           0, arg.left_suffixes_count)
    IN SA = r.SA /\ arg.d = r.d

\* ===================================================== the renumbering, shared
\* libsais_renumber_unique_and_nonunique_lms_suffixes_32s_omp with more than
\* one thread (m taken small, as the blocks above): every thread counts the
\* unique names of its share of SA[0 .. m), they meet at the barrier, and every
\* thread renumbers its share, starting from the counts of the threads below it
libsais_count_unique_suffixes(sa, m, block_start, block_size) ==
  Cardinality({i \in block_start..((block_start + block_size) - 1) : sa[m + (sa[i] \div 2)] < 0})

Renumber32s ==
  /\ pc = "named32s"
  /\ arg.name < arg.m
  /\ \E threads \in 2..BlockThreads :
       arg' = [threads |-> threads, i |-> 0, block_end |-> arg.m,
               thread_state |-> [u \in 0..(threads - 1) |-> [count |-> -7]],
               at |-> [u \in 0..(threads - 1) |-> "idle"],
               touched |-> {},
               before |-> [SA |-> SA]] @@ arg
  /\ pc' = "count32s"
  /\ UNCHANGED <<fn, T, SA, U, heap, ret, zeros>>

\* the thread that adds its unique names to the count of thread 0
CountUnique_shared ==
  /\ pc = "count32s"
  /\ \E t \in Threads :
       /\ arg.at[t] = "idle"
       /\ arg' = [arg EXCEPT !.thread_state[0].count =
                                  (IF @ < 0 THEN 0 ELSE @)
                                    + libsais_count_unique_suffixes(SA, arg.m, omp_block_start(t), omp_block_size(t)),
                              !.at[t] = "counted",
                              !.touched = @ \cup {[by |-> t, of |-> 0, how |-> "write", phase |-> "parallel"]}]
  /\ pc' = IF \A u \in Threads : arg'.at[u] = "counted" THEN "renumber32s" ELSE "count32s"
  /\ UNCHANGED <<fn, T, SA, U, heap, ret, zeros>>

CountUnique ==
  /\ pc = "count32s"
  /\ \E t \in Threads :
       /\ arg.at[t] = "idle"
       /\ arg' = [arg EXCEPT !.thread_state[t].count =
                                  libsais_count_unique_suffixes(SA, arg.m, omp_block_start(t), omp_block_size(t)),
                              !.at[t] = "counted",
                              !.touched = @ \cup {[by |-> t, of |-> t, how |-> "write", phase |-> "parallel"]}]
  /\ pc' = IF \A u \in Threads : arg'.at[u] = "counted" THEN "renumber32s" ELSE "count32s"
  /\ UNCHANGED <<fn, T, SA, U, heap, ret, zeros>>

RECURSIVE CountBelow(_, _)
CountBelow(ts, t) == IF t = 0 THEN 0 ELSE CountBelow(ts, t - 1) + ts[t - 1].count

RenumberBlock ==
  /\ pc = "renumber32s"
  /\ \E t \in Threads :
       /\ arg.at[t] = "counted"
       /\ LET count == CountBelow(arg.thread_state, t)
              r == libsais_renumber_unique_and_nonunique_lms_suffixes_32s(arg.T, SA, arg.m, count,
                                                                          omp_block_start(t), omp_block_size(t))
          IN /\ SA' = r.SA
             /\ arg' = [arg EXCEPT !.f = IF t = arg.threads - 1 THEN count + arg.thread_state[t].count ELSE @,
                                    !.at[t] = "renumbered",
                                    !.touched = @ \cup {[by |-> t, of |-> u, how |-> "read", phase |-> "parallel"] :
                                                           u \in 0..(IF t = arg.threads - 1 THEN t ELSE t - 1)}]
  /\ pc' = "renumber32s"
  /\ UNCHANGED <<fn, T, U, heap, ret, zeros>>

StageNext ==
  Scan \/ Sort \/ Name \/ Scan32s \/ Sort32s \/ Name32s \/ Compact32s \/ Place \/ Induce
    \/ Renumber32s \/ CountUnique \/ RenumberBlock

Stages == StageInit /\ [][StageNext]_vars

\* every thread has renumbered: SA is what the serial renumbering leaves, and f
\* is the number of unique names
RenumberedSerial ==
  (pc = "renumber32s" /\ \A u \in Threads : arg.at[u] = "renumbered") =>
    LET r == libsais_renumber_unique_and_nonunique_lms_suffixes_32s(arg.T, arg.before.SA, arg.m, 0, 0, arg.m)
    IN SA = r.SA /\ arg.f = r.f

\* C29: in the two parallel phases of the renumbering a step of one thread
\* leaves the state of every other thread as it was, and what a thread does
\* with another thread's state is a read
C29_Own ==
  [][(pc \in {"count32s", "renumber32s"}) =>
       /\ \A u \in Threads : arg'.at[u] = arg.at[u] => arg'.thread_state[u] = arg.thread_state[u]
       /\ \A x \in arg'.touched : x.by # x.of => x.how = "read"]_vars

\* C29 as stated: no thread reads or writes another thread's state
C29_AsStated ==
  (pc \in {"count32s", "renumber32s"}) =>
    \A x \in arg.touched : x.phase = "parallel" => x.by = x.of

C29_Witness ==
  /\ pc = "renumber32s"
  /\ arg.threads = 2
  /\ arg.m >= 4
  /\ arg.at[1] = "renumbered"
  /\ arg.thread_state[0].count > 0
  /\ [by |-> 1, of |-> 0, how |-> "read", phase |-> "parallel"] \in arg.touched

\* the cells of the block that thread t prepares, and the cells of SA that it
\* writes when it places: for every symbol as many cells as its cache holds
\* entries of the symbol, from the bucket pointer the reconciling gave it
Share(t) == omp_block_start(t)..((omp_block_start(t) + omp_block_size(t)) - 1)
Cached(t, v) == Cardinality({j \in 1..arg.thread_state[t].count : arg.thread_state[t].cache[j].symbol = v})
Written(t) ==
  UNION {LET c == Cached(t, v)
             b == arg.thread_state[t].buckets[v] - (IF arg.at[t] = "placed" THEN c ELSE 0)
         IN b..((b + c) - 1) : v \in 0..((2 * ALPHABET_SIZE) - 1)}

====
